---- MODULE Spec2Model ----
(***************************************************************************)
(* Judi Guard backend: videoAnalysis.service.js.                           *)
(*                                                                         *)
(* The model follows startVideoAnalysis await by await, so that calls of   *)
(* different users interleave at exactly the points where the JavaScript   *)
(* event loop can switch between them.  Two collections are persistent:    *)
(* VideoAnalysis (the Job Records) and AnalyzedComment (the Comment        *)
(* Store).  Every caller owns one call frame holding the locals of the     *)
(* call it has in flight (or has just finished).                           *)
(***************************************************************************)
EXTENDS Integers, Sequences, FiniteSets, TLC

(***************************************************************************)
(* Bounds of the model.                                                    *)
(***************************************************************************)
MaxThreads == 2      \* longest commentThreads array the Fetch Gateway returns
MaxPolls == 3        \* most interval callbacks awaiting getVideoAnalysisApi at once

(***************************************************************************)
(* Values.                                                                 *)
(***************************************************************************)
Null == "null"
\* The callers: each user asks for one analysis; the calls of different
\* users run concurrently or one after the other.
Users == {"u1", "u2"}

\* Comment identifiers are character sequences, so that startsWith("Ug") is
\* computed and not assumed.
Ug1 == <<"U", "g", "1">>
Ug2 == <<"U", "g", "2">>
Xy9 == <<"X", "y", "9">>
NoId == <<>>

\* A prefix test that every identifier passes.
StartsWithAnything(id) == TRUE

StartsWithUg(id) == Len(id) >= 2 /\ id[1] = "U" /\ id[2] = "g"

\* thread.snippet.topLevelComment as the platform may return it.
TopLevelComments ==
    { [id |-> Ug1,  hasSnippet |-> TRUE,  authorChannelId |-> "chA", textOriginal |-> "slot gacor"],
      [id |-> Ug2,  hasSnippet |-> TRUE,  authorChannelId |-> "chB", textOriginal |-> "nice video"],
      [id |-> NoId, hasSnippet |-> TRUE,  authorChannelId |-> "chA", textOriginal |-> "nice video"],
      [id |-> Ug1,  hasSnippet |-> FALSE, authorChannelId |-> "",    textOriginal |-> ""],
      [id |-> Ug2,  hasSnippet |-> TRUE,  authorChannelId |-> "",    textOriginal |-> "nice video"],
      [id |-> Xy9,  hasSnippet |-> TRUE,  authorChannelId |-> "chA", textOriginal |-> "slot gacor"] }

SeqsUpTo(S, n) == UNION { [1..k -> S] : k \in 0..n }

\* What fetchCommentsForVideo can resolve to.
CommentThreadArrays == SeqsUpTo(TopLevelComments, MaxThreads)

Urls == {"https://youtu.be/vid1", "not a video url"}

\* utils/youtubeHelper.getYouTubeVideoId: the video id, or null.
GetYouTubeVideoId(url) == IF url = "https://youtu.be/vid1" THEN "vid1" ELSE Null

\* videoDetails.snippet.title of a video.
VideoTitle(youtubeVideoId) == "title of " \o youtubeVideoId

\* aiService.analyzeTextWithAI on a successful call.
AnalyzeTextWithAI(text) ==
    [classification  |-> IF text = "slot gacor" THEN "JUDI" ELSE "NON_JUDI",
     confidenceScore |-> IF text = "slot gacor" THEN 9 ELSE 1,
     modelVersion    |-> "v1"]

(***************************************************************************)
(* Pure helpers of startVideoAnalysis.                                     *)
(***************************************************************************)
\* lines 73-87: the structural check of one comment.
IsStructurallyValid(c) ==
    /\ c.id # NoId
    /\ c.hasSnippet
    /\ c.authorChannelId # ""

RECURSIVE ValidComments(_)
\* lines 73-87: map to the comment or null, then filter(Boolean).
ValidComments(commentThreads) ==
    IF commentThreads = <<>> THEN <<>>
    ELSE IF IsStructurallyValid(Head(commentThreads))
         THEN <<Head(commentThreads)>> \o ValidComments(Tail(commentThreads))
         ELSE ValidComments(Tail(commentThreads))

\* The fetched threads that carry an id with the platform's prefix, a
\* snippet and an author channel.
WellFormedCount(commentThreads) ==
    Cardinality({ i \in 1..Len(commentThreads) :
                    /\ IsStructurallyValid(commentThreads[i])
                    /\ StartsWithUg(commentThreads[i].id) })

\* lines 89-94: the map throws on the first id without the prefix.
HasBadCommentId(validComments) ==
    \E i \in 1..Len(validComments) : ~StartsWithUg(validComments[i].id)

CommentIdsFromYouTube(validComments) ==
    { validComments[i].id : i \in 1..Len(validComments) }


\* The filter of lines 102-104 left out: every valid comment counts as new.
NewCommentsUnfiltered(validComments, existingCommentIds) == validComments

RECURSIVE NewCommentsToAnalyze(_, _)
\* lines 102-104: validComments.filter((c) => !existingCommentIds.has(c.id)).
NewCommentsToAnalyze(validComments, existingCommentIds) ==
    IF validComments = <<>> THEN <<>>
    ELSE IF Head(validComments).id \notin existingCommentIds
         THEN <<Head(validComments)>>
                  \o NewCommentsToAnalyze(Tail(validComments), existingCommentIds)
         ELSE NewCommentsToAnalyze(Tail(validComments), existingCommentIds)

\* line 60.
TotalCommentsFetched(commentThreads) == Len(commentThreads)

\* An empty comment list treated as a failure.
StatusWhenNoCommentsIsFailure == "FAILED"

\* line 66: the status given to a run whose video has no comments.
StatusWhenNoComments == "COMPLETED"

RECURSIVE SumFrom(_, _)
SumFrom(results, sum) ==
    IF results = <<>> THEN sum ELSE SumFrom(Tail(results), sum + Head(results))

\* The reduce of line 166 started from 1 instead of 0.
SuccessfulSavesFromOne(results) == SumFrom(results, 1)

\* The reduce of line 166 counting the creates started, not those fulfilled.
SaveOperationsStarted(results) == Len(results)

\* line 166: results.reduce((sum, val) => sum + val, 0).
SuccessfulSaves(results) == SumFrom(results, 0)

(***************************************************************************)
(* The two collections.                                                    *)
(***************************************************************************)
\* VideoAnalysis.create with the status of a finished run.
NewVideoAnalysisCompleted(userId, youtubeVideoId) ==
    [userId                |-> userId,
     youtubeVideoId        |-> youtubeVideoId,
     videoTitle            |-> Null,
     status                |-> "COMPLETED",
     processingStartedAt   |-> "set",
     completedAt           |-> Null,
     totalCommentsFetched  |-> 0,
     totalCommentsAnalyzed |-> 0,
     errorMessage          |-> Null,
     lastBatchDeletionAttemptAt    |-> Null,
     lastBatchDeletionSuccessCount |-> 0,
     lastBatchDeletionFailureCount |-> 0]

\* lines 35-41: VideoAnalysis.create; the fields not given take the schema's
\* defaults.
NewVideoAnalysis(userId, youtubeVideoId) ==
    [userId                |-> userId,
     youtubeVideoId        |-> youtubeVideoId,
     videoTitle            |-> Null,
     status                |-> "PROCESSING",
     processingStartedAt   |-> "set",
     completedAt           |-> Null,
     totalCommentsFetched  |-> 0,
     totalCommentsAnalyzed |-> 0,
     errorMessage          |-> Null,
     lastBatchDeletionAttemptAt    |-> Null,
     lastBatchDeletionSuccessCount |-> 0,
     lastBatchDeletionFailureCount |-> 0]

\* deletionError: null. An error message is a sequence of words, so null is
\* the empty sequence; no message of the model is empty.
NoDeletionError == <<>>

\* lines 128-150: documentToSave, with the schema's defaults for the
\* remediation fields.
DocumentToSave(id, analysisId, userId, youtubeVideoId, comment, aiResult) ==
    [id                  |-> id,
     analysisId          |-> analysisId,
     userId              |-> userId,
     youtubeVideoId      |-> youtubeVideoId,
     youtubeCommentId    |-> comment.id,
     authorChannelId     |-> comment.authorChannelId,
     commentTextOriginal |-> comment.textOriginal,
     classification      |-> aiResult.classification,
     aiConfidenceScore   |-> aiResult.confidenceScore,
     aiModelVersion      |-> aiResult.modelVersion,
     isDeletedOnYoutube   |-> FALSE,
     isModeratedOnYoutube |-> FALSE,
     deletionAttemptedAt  |-> Null,
     deletionError        |-> NoDeletionError]

\* A collection without the unique index: every insert is accepted.
NoUniqueIndex(store, youtubeCommentId) == TRUE

\* The unique index of AnalyzedComment on youtubeCommentId: an insert of a
\* key that is present is rejected (E11000).
UniqueIndexAccepts(store, youtubeCommentId) ==
    \A d \in store : d.youtubeCommentId # youtubeCommentId

\* lines 95-101: AnalyzedComment.find({youtubeCommentId: {$in: ids}}).
ExistingCommentIds(store, ids) ==
    { d.youtubeCommentId : d \in { x \in store : x.youtubeCommentId \in ids } }

(***************************************************************************)
(* State.                                                                  *)
(***************************************************************************)
VARIABLES
    analyses,   \* the VideoAnalysis collection: a sequence, _id = index
    comments,   \* the AnalyzedComment collection: a set of documents
    frame,      \* frame[u]: the locals of u's startVideoAnalysis call
    call,       \* call[u]: the locals of u's call of one of the other exports
    userDocs,   \* the User collection: a set of documents, one per email
    authCall,   \* authCall[c]: the locals of client c's call of auth.service
    hook        \* the state of one mounted useVideoAnalysis hook

vars == <<analyses, comments, frame, call, userDocs, authCall, hook>>

NoEntry == [status |-> "none"]

IdleFrame ==
    [pc                   |-> "idle",
     youtubeVideoId       |-> Null,
     entryId              |-> 0,          \* analysisEntry._id, 0 before create
     analysisEntry        |-> NoEntry,    \* the in-memory document
     validComments        |-> <<>>,
     newCommentsToAnalyze |-> <<>>,
     results              |-> <<>>,       \* saveOperations and what they settle to
     error                |-> Null,       \* the error caught or thrown
     \* history of the call, read by the properties only
     fetched              |-> FALSE,      \* fetchCommentsForVideo resolved
     fetchedCount         |-> 0,          \* commentThreads.length
     fetchedWellFormed    |-> 0,          \* threads with id, "Ug", snippet, author
     existingCommentIds   |-> {},         \* the answer of the dedup query
     storedAtQuery        |-> {},         \* fetched ids then in the store
     aiCalls              |-> <<>>,       \* ids handed to analyzeTextWithAI
     aiRejected           |-> 0,          \* index of the call that rejected
     externalCalls        |-> {},         \* collaborators called so far
     callsBeforeEntry     |-> {}]         \* those called before the create

\* No AnalyzedComment document (findOne resolved to null, or nothing loaded).
NoComment == [id |-> <<>>]

\* No error.
NoError == [class |-> "none", code |-> 0, message |-> <<>>]

\* lines 376-382: the value requestBatchDeleteJudiComments resolves to holds
\* totalTargeted, successfullyDeleted, failedToDelete and failures (a sequence
\* of [youtubeCommentId, error]); a call that has not resolved has none.
NoSummary == [returned |-> FALSE]

\* The locals of a call of requestDeleteYoutubeComment, getAnalysisResults
\* or requestBatchDeleteJudiComments.
IdleCall ==
    [op                         |-> "none",
     pc                         |-> "idle",
     analyzedCommentId          |-> <<>>,
     youtubeCommentId           |-> NoId,
     analysisId                 |-> 0,
     comment                    |-> NoComment,  \* what findOne resolved to
     commentAuthorChannelId     |-> Null,       \* read from the platform
     authenticatedUserChannelId |-> Null,
     error                      |-> NoError,    \* the error caught or thrown
     updatedComment             |-> NoComment,  \* the value returned
     analyzedComments           |-> {},         \* the list returned
     summary                    |-> NoSummary,  \* the summary returned
     \* history of the call, read by the properties only
     caught                     |-> NoError,    \* what entered the catch block
     platformAuthorChannelId    |-> Null,       \* author in the comments.list item
     gatewayCalls               |-> {},         \* platform calls made so far
     wrote                      |-> {}]         \* documents written so far

(***************************************************************************)
(* auth.service.js: the User collection and the locals of a call.          *)
(***************************************************************************)
\* The clients of the auth service: their calls run concurrently or one
\* after the other.
Clients == {"c1", "c2"}

Emails == {"a@x", "b@x"}
Usernames == {"ann"}
Passwords == {"pw1", "pw2"}

\* generateOtp: a string of six digits, drawn at random.
Otps == {"111111", "222222"}
NoOtp == ""

\* otpExpiresAt against the clock: undefined, ten minutes not yet over, or
\* over.
NoExpiry == "undefined"
NotYetExpired == "later than now"
Expired == "earlier than now"

NoUser ==
    [email |-> Null, username |-> Null, password |-> Null,
     isVerified |-> FALSE, otpCode |-> NoOtp, otpExpiresAt |-> NoExpiry]

IdleAuthCall ==
    [op       |-> "none",
     pc       |-> "idle",
     email    |-> Null,       \* arguments
     username |-> Null,
     password |-> Null,
     otpCode  |-> NoOtp,
     otp      |-> NoOtp,      \* const otp / newOtp
     user     |-> NoUser,     \* what findOne resolved to; userToSave
     isNew    |-> FALSE,      \* userToSave is a document not yet inserted
     token    |-> FALSE,      \* the value returned has a token
     error    |-> "none"]     \* the class of the error thrown

(***************************************************************************)
(* useVideoAnalysis.js: the state of the hook.                             *)
(***************************************************************************)
\* videoAnalysisData.status as the API may return it.
ApiStatuses ==
    {"PENDING", "PROCESSING", "COMPLETED", "FAILED",
     "COMPLETED_DELETION_WITH_PARTIAL_ERRORS"}

\* initialAnalysisData._id as the API may return it.
HookAnalysisIds == {"a1", "a2"}

\* The state of the hook when it is mounted.
IdleHook ==
    [isUserLoading      |-> TRUE,
     isYouTubeConnected |-> FALSE,
     isAnalyzing        |-> FALSE,
     analysisId         |-> Null,
     status             |-> Null,   \* videoAnalysisData?.status
     intervals          |-> 0,      \* intervals set and not cleared
     pc                 |-> "idle", \* position of handleSubmitAnalysis
     polls              |-> 0]      \* interval callbacks awaiting the API

Init ==
    /\ analyses = <<>>
    /\ comments = {}
    /\ frame = [u \in Users |-> IdleFrame]
    /\ call = [u \in Users |-> IdleCall]
    /\ userDocs = {}
    /\ authCall = [c \in Clients |-> IdleAuthCall]
    /\ hook = IdleHook

InFlight(u) == frame[u].pc \notin {"idle", "returned", "thrown", "done"}

\* A call has settled and its caller has not yet taken the result.
Settled(u) == frame[u].pc \in {"returned", "thrown"}

\* The continuation of a settled promise is a microtask: it runs before the
\* event loop delivers the next I/O completion to any call, so no call takes
\* a step while a settled one has not been taken by its caller.
NoneSettled ==
    \A u \in Users : ~Settled(u) /\ call[u].pc \notin {"returned", "thrown"}

\* analysisEntry.save(): the paths startVideoAnalysis assigns are written.
SavedEntry(stored, entry) ==
    [stored EXCEPT !.videoTitle = entry.videoTitle,
                   !.totalCommentsFetched = entry.totalCommentsFetched,
                   !.totalCommentsAnalyzed = entry.totalCommentsAnalyzed,
                   !.status = entry.status,
                   !.completedAt = entry.completedAt,
                   !.errorMessage = entry.errorMessage]

\* An external collaborator is called: remembered, with whether the
\* VideoAnalysis document existed.
Called(f, name) ==
    [f EXCEPT !.externalCalls = @ \cup {name},
              !.callsBeforeEntry = IF f.entryId = 0 THEN @ \cup {name} ELSE @]

(***************************************************************************)
(* startVideoAnalysis, one action per await.                               *)
(***************************************************************************)
\* lines 22-27: the call, and the validation of the URL.
StartVideoAnalysis(u, url) ==
    /\ frame[u].pc = "idle"
    /\ NoneSettled
    /\ LET youtubeVideoId == GetYouTubeVideoId(url) IN
       frame' = [frame EXCEPT ![u] =
           IF youtubeVideoId = Null
           THEN [IdleFrame EXCEPT !.pc = "thrown", !.error = "BadRequestError"]
           ELSE [IdleFrame EXCEPT !.pc = "auth", !.youtubeVideoId = youtubeVideoId]]
    /\ UNCHANGED <<analyses, comments, call>>
    /\ UNCHANGED <<userDocs, authCall, hook>>

\* lines 29-31: getAuthenticatedYouTubeClient resolves.
GetAuthenticatedYouTubeClient(u) ==
    /\ frame[u].pc = "auth"
    /\ NoneSettled
    /\ frame' = [frame EXCEPT ![u] =
           [Called(frame[u], "youtubeAuth") EXCEPT !.pc = "create"]]
    /\ UNCHANGED <<analyses, comments, call>>
    /\ UNCHANGED <<userDocs, authCall, hook>>

\* lines 29-31: getAuthenticatedYouTubeClient rejects; nothing catches it.
GetAuthenticatedYouTubeClientFails(u) ==
    /\ frame[u].pc = "auth"
    /\ NoneSettled
    /\ frame' = [frame EXCEPT ![u] =
           [Called(frame[u], "youtubeAuth") EXCEPT
               !.pc = "thrown", !.error = "YOUTUBE_AUTH_ERROR"]]
    /\ UNCHANGED <<analyses, comments, call>>
    /\ UNCHANGED <<userDocs, authCall, hook>>

\* VideoAnalysis.create storing the document twice.
CreateAnalysisEntryTwice(u) ==
    /\ frame[u].pc = "create"
    /\ NoneSettled
    /\ LET doc == NewVideoAnalysis(u, frame[u].youtubeVideoId) IN
       /\ analyses' = Append(Append(analyses, doc), doc)
       /\ frame' = [frame EXCEPT ![u] =
              [@ EXCEPT !.pc = "details",
                        !.entryId = Len(analyses) + 1,
                        !.analysisEntry = doc]]
    /\ UNCHANGED <<comments, call>>
    /\ UNCHANGED <<userDocs, authCall, hook>>

\* lines 35-41: VideoAnalysis.create resolves.
CreateAnalysisEntry(u) ==
    /\ frame[u].pc = "create"
    /\ NoneSettled
    /\ LET doc == NewVideoAnalysis(u, frame[u].youtubeVideoId) IN
       /\ analyses' = Append(analyses, doc)
       /\ frame' = [frame EXCEPT ![u] =
              [@ EXCEPT !.pc = "details",
                        !.entryId = Len(analyses) + 1,
                        !.analysisEntry = doc]]
    /\ UNCHANGED <<comments, call>>
    /\ UNCHANGED <<userDocs, authCall, hook>>

\* lines 35-41: VideoAnalysis.create rejects, outside the try block.
CreateAnalysisEntryFails(u) ==
    /\ frame[u].pc = "create"
    /\ NoneSettled
    /\ frame' = [frame EXCEPT ![u] =
           [@ EXCEPT !.pc = "thrown", !.error = "DB_ERROR"]]
    /\ UNCHANGED <<analyses, comments, call>>
    /\ UNCHANGED <<userDocs, authCall, hook>>

\* lines 44-49: getVideoDetails resolves; the video has a snippet.
GetVideoDetails(u) ==
    /\ frame[u].pc = "details"
    /\ NoneSettled
    /\ frame' = [frame EXCEPT ![u] =
           [Called(frame[u], "getVideoDetails") EXCEPT
               !.pc = "fetch",
               !.analysisEntry.videoTitle = VideoTitle(frame[u].youtubeVideoId)]]
    /\ UNCHANGED <<analyses, comments, call>>
    /\ UNCHANGED <<userDocs, authCall, hook>>

\* lines 44-46: getVideoDetails rejects (quota, network, revoked token).
GetVideoDetailsFails(u) ==
    /\ frame[u].pc = "details"
    /\ NoneSettled
    /\ frame' = [frame EXCEPT ![u] =
           [Called(frame[u], "getVideoDetails") EXCEPT
               !.pc = "catch", !.error = "YOUTUBE_API_ERROR"]]
    /\ UNCHANGED <<analyses, comments, call>>
    /\ UNCHANGED <<userDocs, authCall, hook>>

\* lines 52-94: fetchCommentsForVideo resolves to commentThreads; the count is
\* recorded; an empty array ends the run, otherwise the comments are
\* validated and their ids collected (which throws on an id without "Ug").
FetchCommentsForVideo(u, commentThreads) ==
    /\ frame[u].pc = "fetch"
    /\ NoneSettled
    /\ LET f == [Called(frame[u], "fetchCommentsForVideo") EXCEPT
                    !.fetched = TRUE,
                    !.fetchedCount = Len(commentThreads),
                    !.fetchedWellFormed = WellFormedCount(commentThreads),
                    !.analysisEntry.totalCommentsFetched =
                        TotalCommentsFetched(commentThreads)]
           validComments == ValidComments(commentThreads)
       IN frame' = [frame EXCEPT ![u] =
              IF Len(commentThreads) = 0
              THEN [f EXCEPT !.pc = "save",
                             !.analysisEntry.status = StatusWhenNoComments,
                             !.analysisEntry.completedAt = "set"]
              ELSE IF HasBadCommentId(validComments)
              THEN [f EXCEPT !.pc = "catch", !.error = "INVALID_COMMENT_ID_FORMAT"]
              ELSE [f EXCEPT !.pc = "find", !.validComments = validComments]]
    /\ UNCHANGED <<analyses, comments, call>>
    /\ UNCHANGED <<userDocs, authCall, hook>>

\* lines 52-58: fetchCommentsForVideo rejects.
FetchCommentsForVideoFails(u) ==
    /\ frame[u].pc = "fetch"
    /\ NoneSettled
    /\ frame' = [frame EXCEPT ![u] =
           [Called(frame[u], "fetchCommentsForVideo") EXCEPT
               !.pc = "catch", !.error = "YOUTUBE_API_ERROR"]]
    /\ UNCHANGED <<analyses, comments, call>>
    /\ UNCHANGED <<userDocs, authCall, hook>>

\* lines 95-113 and 174-176: the dedup query resolves; the new comments are
\* selected and, when there are any, one analyzeTextWithAI call per new
\* comment is issued; with none the run goes to its finalisation.
FindExistingComments(u) ==
    /\ frame[u].pc = "find"
    /\ NoneSettled
    /\ LET validComments == frame[u].validComments
           existingCommentIds ==
               ExistingCommentIds(comments, CommentIdsFromYouTube(validComments))
           new == NewCommentsToAnalyze(validComments, existingCommentIds)
           f == [frame[u] EXCEPT
                    !.existingCommentIds = existingCommentIds,
                    !.storedAtQuery =
                        { d.youtubeCommentId : d \in comments }
                            \cap CommentIdsFromYouTube(validComments),
                    !.newCommentsToAnalyze = new]
       IN frame' = [frame EXCEPT ![u] =
              IF Len(new) > 0
              THEN [Called(f, "analyzeTextWithAI") EXCEPT
                       !.pc = "ai",
                       !.aiCalls = [i \in 1..Len(new) |-> new[i].id]]
              ELSE [f EXCEPT !.pc = "save",
                             !.analysisEntry.status = "COMPLETED",
                             !.analysisEntry.completedAt = "set"]]
    /\ UNCHANGED <<analyses, comments, call>>
    /\ UNCHANGED <<userDocs, authCall, hook>>

\* lines 95-101: the dedup query rejects.
FindExistingCommentsFails(u) ==
    /\ frame[u].pc = "find"
    /\ NoneSettled
    /\ frame' = [frame EXCEPT ![u] = [@ EXCEPT !.pc = "catch", !.error = "DB_ERROR"]]
    /\ UNCHANGED <<analyses, comments, call>>
    /\ UNCHANGED <<userDocs, authCall, hook>>

\* lines 118-163: the loop that starts one AnalyzedComment.create per new
\* comment (a comment without author channel is skipped).
SaveOperations(newCommentsToAnalyze) ==
    [i \in 1..Len(newCommentsToAnalyze) |->
        [state |-> IF newCommentsToAnalyze[i].authorChannelId = ""
                   THEN "skipped" ELSE "pending",
         value |-> 0]]

\* line 114: Promise.all over the classifier calls. With every call
\* fulfilled the creates are started (lines 116-163).
AwaitAiResults(u) ==
    /\ frame[u].pc = "ai"
    /\ NoneSettled
    /\ frame' = [frame EXCEPT ![u] =
           [@ EXCEPT !.pc = "persist",
                     !.results = SaveOperations(frame[u].newCommentsToAnalyze)]]
    /\ UNCHANGED <<analyses, comments, call>>
    /\ UNCHANGED <<userDocs, authCall, hook>>

\* line 114: Promise.all rejects as soon as one classifier call rejects:
\* call i is the first to reject; what the other calls do is not awaited.
AwaitAiResultsFails(u, i) ==
    /\ frame[u].pc = "ai"
    /\ NoneSettled
    /\ frame' = [frame EXCEPT ![u] =
           [@ EXCEPT !.pc = "catch", !.error = "AI_SERVICE_ERROR",
                     !.aiRejected = i]]
    /\ UNCHANGED <<analyses, comments, call>>
    /\ UNCHANGED <<userDocs, authCall, hook>>

\* lines 152-154: one AnalyzedComment.create resolves: .then(() => 1).
CreateAnalyzedComment(u, i) ==
    /\ frame[u].pc = "persist"
    /\ NoneSettled
    /\ frame[u].results[i].state = "pending"
    /\ LET comment == frame[u].newCommentsToAnalyze[i]
           doc == DocumentToSave(<<frame[u].entryId, i>>, frame[u].entryId, u,
                                 frame[u].youtubeVideoId, comment,
                                 AnalyzeTextWithAI(comment.textOriginal))
       IN /\ UniqueIndexAccepts(comments, doc.youtubeCommentId)
          /\ comments' = comments \cup {doc}
          /\ frame' = [frame EXCEPT ![u] =
                 [@ EXCEPT !.results[i] = [state |-> "settled", value |-> 1]]]
    /\ UNCHANGED <<analyses, call>>
    /\ UNCHANGED <<userDocs, authCall, hook>>

\* A rejected AnalyzedComment.create without the .catch of lines 155-161:
\* Promise.all rejects and the catch block of the call runs.
CreateAnalyzedCommentUncaught(u, i) ==
    /\ frame[u].pc = "persist"
    /\ NoneSettled
    /\ frame[u].results[i].state = "pending"
    /\ frame' = [frame EXCEPT ![u] =
           [@ EXCEPT !.results[i] = [state |-> "settled", value |-> 0],
                     !.pc = "catch", !.error = "DB_ERROR"]]
    /\ UNCHANGED <<analyses, comments, call>>
    /\ UNCHANGED <<userDocs, authCall, hook>>

\* lines 155-161: one AnalyzedComment.create rejects (a duplicate key, a
\* validation error, a lost connection): .catch(() => 0).
CreateAnalyzedCommentFails(u, i) ==
    /\ frame[u].pc = "persist"
    /\ NoneSettled
    /\ frame[u].results[i].state = "pending"
    /\ frame' = [frame EXCEPT ![u] = [@ EXCEPT !.results[i] = [state |-> "settled", value |-> 0]]]
    /\ UNCHANGED <<analyses, comments, call>>
    /\ UNCHANGED <<userDocs, authCall, hook>>

\* The values Promise.all(saveOperations) resolves to.
SettledResults(results) ==
    LET idx == { i \in 1..Len(results) : results[i].state = "settled" }
        RECURSIVE Pick(_)
        Pick(i) == IF i > Len(results) THEN <<>>
                   ELSE IF i \in idx THEN <<results[i].value>> \o Pick(i + 1)
                   ELSE Pick(i + 1)
    IN Pick(1)

\* lines 165-176: every create has settled; the successes are counted and
\* the run is marked COMPLETED in memory.
AwaitSaveOperations(u) ==
    /\ frame[u].pc = "persist"
    /\ NoneSettled
    /\ \A i \in 1..Len(frame[u].results) : frame[u].results[i].state # "pending"
    /\ frame' = [frame EXCEPT ![u] =
           [@ EXCEPT !.pc = "save",
                     !.analysisEntry.totalCommentsAnalyzed =
                         SuccessfulSaves(SettledResults(frame[u].results)),
                     !.analysisEntry.status = "COMPLETED",
                     !.analysisEntry.completedAt = "set"]]
    /\ UNCHANGED <<analyses, comments, call>>
    /\ UNCHANGED <<userDocs, authCall, hook>>

\* lines 68-69 and 179-185: analysisEntry.save() resolves and the call
\* returns the document.
SaveAnalysisEntry(u) ==
    /\ frame[u].pc = "save"
    /\ NoneSettled
    /\ analyses' = [analyses EXCEPT ![frame[u].entryId] =
                       SavedEntry(@, frame[u].analysisEntry)]
    /\ frame' = [frame EXCEPT ![u] = [@ EXCEPT !.pc = "returned"]]
    /\ UNCHANGED <<comments, call>>
    /\ UNCHANGED <<userDocs, authCall, hook>>

\* lines 68 and 179: analysisEntry.save() rejects, inside the try block.
SaveAnalysisEntryFails(u) ==
    /\ frame[u].pc = "save"
    /\ NoneSettled
    /\ frame' = [frame EXCEPT ![u] = [@ EXCEPT !.pc = "catch", !.error = "DB_ERROR"]]
    /\ UNCHANGED <<analyses, comments, call>>
    /\ UNCHANGED <<userDocs, authCall, hook>>

\* The catch block recording the status and no message.
FailedEntryWithoutMessage(analysisEntry, error) ==
    [analysisEntry EXCEPT !.status = "FAILED"]

\* lines 196-197: what the catch block assigns.
FailedEntry(analysisEntry, error) ==
    [analysisEntry EXCEPT !.status = "FAILED", !.errorMessage = error]

\* The catch block also removing the documents the run stored.
CatchAndRollBack(u) ==
    /\ frame[u].pc = "catch"
    /\ NoneSettled
    /\ LET entry == FailedEntry(frame[u].analysisEntry, frame[u].error)
       IN /\ analyses' = [analyses EXCEPT ![frame[u].entryId] = SavedEntry(@, entry)]
          /\ comments' = { d \in comments : d.analysisId # frame[u].entryId }
          /\ frame' = [frame EXCEPT ![u] =
                 [@ EXCEPT !.pc = "thrown", !.analysisEntry = entry]]
    /\ UNCHANGED call
    /\ UNCHANGED <<userDocs, authCall, hook>>

\* lines 186-201: the catch block marks the run FAILED, saves and rethrows.
CatchAndSave(u) ==
    /\ frame[u].pc = "catch"
    /\ NoneSettled
    /\ LET entry == FailedEntry(frame[u].analysisEntry, frame[u].error)
       IN /\ analyses' = [analyses EXCEPT ![frame[u].entryId] = SavedEntry(@, entry)]
          /\ frame' = [frame EXCEPT ![u] =
                 [@ EXCEPT !.pc = "thrown", !.analysisEntry = entry]]
    /\ UNCHANGED <<comments, call>>
    /\ UNCHANGED <<userDocs, authCall, hook>>

\* line 198: the save of the catch block rejects; its error is what the
\* caller gets.
CatchAndSaveFails(u) ==
    /\ frame[u].pc = "catch"
    /\ NoneSettled
    /\ frame' = [frame EXCEPT ![u] =
           [@ EXCEPT !.pc = "thrown", !.error = "DB_ERROR",
                     !.analysisEntry =
                         FailedEntry(frame[u].analysisEntry, frame[u].error)]]
    /\ UNCHANGED <<analyses, comments, call>>
    /\ UNCHANGED <<userDocs, authCall, hook>>

\* lines 69, 185 and 201: the caller's continuation takes the value or the
\* error and the frame of the call is gone.
ReturnToCaller(u) ==
    /\ Settled(u)
    /\ frame' = [frame EXCEPT ![u] = [IdleFrame EXCEPT !.pc = "done"]]
    /\ UNCHANGED <<analyses, comments, call>>
    /\ UNCHANGED <<userDocs, authCall, hook>>

(***************************************************************************)
(* Errors.                                                                 *)
(***************************************************************************)
\* Messages are sequences of words; includes() is computed on the words.
Includes(message, word) == \E i \in 1..Len(message) : message[i] = word

\* Reading an identifier that is declared nowhere.
ReferenceError ==
    [class |-> "ReferenceError", code |-> 0,
     message |-> <<"AnalysisId", "is", "not", "defined">>]

\* utils/errors: the classes the service throws; they carry no upstream code.
AppError(class, message) == [class |-> class, code |-> 0, message |-> message]

\* A rejected store operation.
DbError == [class |-> "MongoError", code |-> 0, message |-> <<"DB_ERROR">>]

\* A rejected getAuthenticatedYouTubeClient.
AuthError == [class |-> "Error", code |-> 0, message |-> <<"YOUTUBE_AUTH_ERROR">>]

(***************************************************************************)
(* requestBatchDeleteJudiComments.                                         *)
(***************************************************************************)
\* lines 238-243: the first statement builds the filter {_id: AnalysisId}.
\* The parameter is analysisId; AnalysisId is declared nowhere in the module,
\* so reading it throws a ReferenceError before findOne is called and before
\* the first await: the call rejects and nothing has been read or written.
\* The call with line 241 reading the parameter and the assignments of lines
\* 287-289 made on whatever document has the _id.
RequestBatchWritesDeleting(u, analysisId) ==
    /\ call[u].pc = "idle"
    /\ frame[u].pc \in {"idle", "done"}
    /\ NoneSettled
    /\ analyses' = [j \in DOMAIN analyses |->
                       IF j = analysisId
                       THEN [analyses[j] EXCEPT
                                !.status = "DELETING_CLASSIFIED_COMMENTS",
                                !.lastBatchDeletionAttemptAt = "set"]
                       ELSE analyses[j]]
    /\ call' = [call EXCEPT ![u] =
           [IdleCall EXCEPT !.op = "requestBatchDeleteJudiComments",
                            !.pc = "thrown",
                            !.analysisId = analysisId,
                            !.error = ReferenceError]]
    /\ UNCHANGED <<comments, frame>>
    /\ UNCHANGED <<userDocs, authCall, hook>>

RequestBatchDeleteJudiComments(u, analysisId) ==
    /\ call[u].pc = "idle"
    /\ frame[u].pc \in {"idle", "done"}
    /\ NoneSettled
    /\ call' = [call EXCEPT ![u] =
           [IdleCall EXCEPT !.op = "requestBatchDeleteJudiComments",
                            !.pc = "thrown",
                            !.analysisId = analysisId,
                            !.error = ReferenceError]]
    /\ UNCHANGED <<analyses, comments, frame>>
    /\ UNCHANGED <<userDocs, authCall, hook>>

\* The caller's continuation takes the value or the error of a settled call.
ReturnCall(u) ==
    /\ call[u].pc \in {"returned", "thrown"}
    /\ call' = [call EXCEPT ![u] = IdleCall]
    /\ UNCHANGED <<analyses, comments, frame>>
    /\ UNCHANGED <<userDocs, authCall, hook>>


(***************************************************************************)
(* requestDeleteYoutubeComment, one action per await.                      *)
(***************************************************************************)
\* What the platform can answer to a call that it refuses.
UpstreamError(code, message) ==
    [class |-> "GaxiosError", code |-> code, message |-> message]

UpstreamErrors ==
    { UpstreamError(400, <<"invalid", "request">>),
      UpstreamError(404, <<"commentNotFound">>),
      UpstreamError(403, <<"forbidden:", "NOT_COMMENT_OWNER_CANNOT_DELETE_PERMANENtLY">>),
      UpstreamError(403, <<"forbidden:", "NOT_CHANNEL_OWNER_OF_VIDEO_FOR_MODERATION">>),
      UpstreamError(403, <<"quotaExceeded">>),
      UpstreamError(500, <<"backendError">>) }

\* The messages of lines 606 and 612.
NotCommentOwnerMessage == <<"Komentar", "ini", "bukan", "milik", "Anda.">>
NotChannelOwnerMessage == <<"Anda", "tidak", "memiliki", "izin", "untuk", "memoderasi">>

\* line 471: mongoose.Types.ObjectId.isValid. The _id of a document of the
\* model is a pair; a well-formed identifier is one of that shape.
IsValidObjectId(id) == Len(id) = 2

\* An identifier that is not an ObjectId, and a well-formed one that no
\* document has.
MalformedId == <<0>>
AbsentId == <<9, 9>>

\* The identifiers a caller may pass.
AnalyzedCommentIds == { d.id : d \in comments } \cup {AbsentId, MalformedId}
YoutubeCommentIds == {Ug1, Ug2, Xy9}

\* The channel of the account a user has connected: channels.list({mine}).
ChannelOf(u) == IF u = "u1" THEN "chA" ELSE "chB"

\* What comments.list({id}) can resolve to: no item (the comment is gone) or
\* the comment with its author channel as the platform has it now.
CommentsListItems == { <<>>, <<[authorChannelId |-> "chA"]>>, <<[authorChannelId |-> "chB"]>> }

\* lines 481-485: AnalyzedComment.findOne({_id, userId, youtubeCommentId}).
FindOne(store, analyzedCommentId, userId, youtubeCommentId) ==
    LET found == { d \in store : /\ d.id = analyzedCommentId
                                 /\ d.userId = userId
                                 /\ d.youtubeCommentId = youtubeCommentId }
    IN IF found = {} THEN NoComment ELSE CHOOSE d \in found : TRUE

\* The short-circuit looking at isDeletedOnYoutube only.
IsDeletedOnly(comment) == comment.isDeletedOnYoutube

\* line 496: the comment is already marked deleted or moderated.
IsAlreadyRemoved(comment) ==
    comment.isDeletedOnYoutube \/ comment.isModeratedOnYoutube

\* The author channel taken from the stored document, not from the platform.
CachedAuthorChannelId(actualYoutubeComment, comment) == comment.authorChannelId

\* lines 521-523: the author channel of the comment as the platform returns it.
CommentAuthorChannelId(actualYoutubeComment, comment) ==
    actualYoutubeComment.authorChannelId

\* line 534: the comment was written by the channel of the caller.
IsOwnComment(commentAuthorChannelId, authenticatedUserChannelId) ==
    commentAuthorChannelId = authenticatedUserChannelId

\* The update of lines 566-574 marking the comment deleted as well.
ModeratedUpdateAlsoDeleted(doc) ==
    [doc EXCEPT !.isDeletedOnYoutube = TRUE,
                !.isModeratedOnYoutube = TRUE,
                !.deletionAttemptedAt = "set",
                !.deletionError = NoDeletionError]

\* The update of lines 543-552 leaving the message of an earlier attempt.
DeletedUpdateKeepsError(doc) ==
    [doc EXCEPT !.isDeletedOnYoutube = TRUE,
                !.isModeratedOnYoutube = FALSE,
                !.deletionAttemptedAt = "set"]

\* lines 543-552: the update after a permanent delete.
DeletedUpdate(doc) ==
    [doc EXCEPT !.isDeletedOnYoutube = TRUE,
                !.isModeratedOnYoutube = FALSE,
                !.deletionAttemptedAt = "set",
                !.deletionError = NoDeletionError]

\* lines 566-575: the update after a moderation.
ModeratedUpdate(doc) ==
    [doc EXCEPT !.isDeletedOnYoutube = FALSE,
                !.isModeratedOnYoutube = TRUE,
                !.deletionAttemptedAt = "set",
                !.deletionError = NoDeletionError]

\* The update of the catch block also resetting the label.
FailedUpdateClearsLabel(doc, error) ==
    [doc EXCEPT !.isDeletedOnYoutube = FALSE,
                !.isModeratedOnYoutube = FALSE,
                !.deletionAttemptedAt = "set",
                !.deletionError = error.message,
                !.classification = "NON_JUDI"]

\* lines 586-591: the update of the catch block.
FailedUpdate(doc, error) ==
    [doc EXCEPT !.isDeletedOnYoutube = FALSE,
                !.isModeratedOnYoutube = FALSE,
                !.deletionAttemptedAt = "set",
                !.deletionError = error.message]

\* The mapping with every upstream error passed on as it is.
RethrownUnchanged(error) == error

\* lines 593-618: the error thrown for the error caught.
Rethrown(error) ==
    IF error.code = 400 \/ error.class = "BadRequestError"
    THEN AppError("BadRequestError", error.message)
    ELSE IF error.code = 404 \/ error.class = "NotFoundError"
    THEN AppError("NotFoundError", error.message)
    ELSE IF error.code = 403
    THEN IF Includes(error.message, "NOT_COMMENT_OWNER_CANNOT_DELETE_PERMANENtLY")
         THEN AppError("ForbiddenError", NotCommentOwnerMessage)
         ELSE IF Includes(error.message, "NOT_CHANNEL_OWNER_OF_VIDEO_FOR_MODERATION")
         THEN AppError("ForbiddenError", NotChannelOwnerMessage)
         ELSE AppError("ForbiddenError", error.message)
    ELSE error

\* findByIdAndUpdate(analyzedCommentId, update): the document with that _id
\* is replaced by its updated version.
FindByIdAndUpdate(store, analyzedCommentId, updated) ==
    { IF d.id = analyzedCommentId THEN updated ELSE d : d \in store }

\* A platform call is made: remembered.
GatewayCalled(c, name) == [c EXCEPT !.gatewayCalls = @ \cup {name}]

\* lines 465-478: the call, and the validation of the two identifiers.
RequestDeleteYoutubeComment(u, analyzedCommentId, youtubeCommentId) ==
    /\ call[u].pc = "idle"
    /\ frame[u].pc \in {"idle", "done"}
    /\ NoneSettled
    /\ LET c == [IdleCall EXCEPT !.op = "requestDeleteYoutubeComment",
                                 !.analyzedCommentId = analyzedCommentId,
                                 !.youtubeCommentId = youtubeCommentId]
       IN call' = [call EXCEPT ![u] =
              IF ~IsValidObjectId(analyzedCommentId)
              THEN [c EXCEPT !.pc = "thrown",
                             !.error = AppError("BadRequestError",
                                                <<"Invalid", "analyzed", "comment", "ID">>)]
              ELSE IF ~StartsWithUg(youtubeCommentId)
              THEN [c EXCEPT !.pc = "thrown",
                             !.error = AppError("BadRequestError",
                                                <<"Invalid", "YouTube", "comment", "ID", "format">>)]
              ELSE [c EXCEPT !.pc = "findOne"]]
    /\ UNCHANGED <<analyses, comments, frame>>
    /\ UNCHANGED <<userDocs, authCall, hook>>

\* lines 481-502: findOne resolves; no document is NotFound; a document
\* already marked deleted or moderated is returned as it is.
FindOneComment(u) ==
    /\ call[u].pc = "findOne"
    /\ NoneSettled
    /\ LET comment == FindOne(comments, call[u].analyzedCommentId, u,
                              call[u].youtubeCommentId)
       IN call' = [call EXCEPT ![u] =
              IF comment = NoComment
              THEN [@ EXCEPT !.pc = "thrown",
                             !.error = AppError("NotFoundError",
                                                <<"Comment", "not", "found", "or", "not", "owned">>)]
              ELSE IF IsAlreadyRemoved(comment)
              THEN [@ EXCEPT !.pc = "returned", !.comment = comment,
                             !.updatedComment = comment]
              ELSE [@ EXCEPT !.pc = "client", !.comment = comment]]
    /\ UNCHANGED <<analyses, comments, frame>>
    /\ UNCHANGED <<userDocs, authCall, hook>>

\* lines 481-485: findOne rejects.
FindOneCommentFails(u) ==
    /\ call[u].pc = "findOne"
    /\ NoneSettled
    /\ call' = [call EXCEPT ![u] = [@ EXCEPT !.pc = "thrown", !.error = DbError]]
    /\ UNCHANGED <<analyses, comments, frame>>
    /\ UNCHANGED <<userDocs, authCall, hook>>

\* lines 504-506: getAuthenticatedYouTubeClient resolves.
GetClientForComment(u) ==
    /\ call[u].pc = "client"
    /\ NoneSettled
    /\ call' = [call EXCEPT ![u] =
           [GatewayCalled(call[u], "getAuthenticatedYouTubeClient") EXCEPT
               !.pc = "commentsList"]]
    /\ UNCHANGED <<analyses, comments, frame>>
    /\ UNCHANGED <<userDocs, authCall, hook>>

\* lines 504-506: getAuthenticatedYouTubeClient rejects, before the try
\* block: the error goes to the caller and the document is not touched.
GetClientForCommentFails(u) ==
    /\ call[u].pc = "client"
    /\ NoneSettled
    /\ call' = [call EXCEPT ![u] =
           [GatewayCalled(call[u], "getAuthenticatedYouTubeClient") EXCEPT
               !.pc = "thrown", !.error = AuthError]]
    /\ UNCHANGED <<analyses, comments, frame>>
    /\ UNCHANGED <<userDocs, authCall, hook>>

\* lines 511-523: comments.list resolves; without an item the comment is
\* gone from the platform, which is thrown as NotFoundError into the catch
\* block; with one the author channel is read.
CommentsList(u, items) ==
    /\ call[u].pc = "commentsList"
    /\ NoneSettled
    /\ LET c == GatewayCalled(call[u], "comments.list") IN
       call' = [call EXCEPT ![u] =
           IF Len(items) = 0
           THEN [c EXCEPT !.pc = "catch",
                          !.error = AppError("NotFoundError",
                                             <<"Komentar", "tidak", "ditemukan", "di", "YouTube.">>)]
           ELSE [c EXCEPT !.pc = "channelsList",
                          !.platformAuthorChannelId = items[1].authorChannelId,
                          !.commentAuthorChannelId =
                              CommentAuthorChannelId(items[1], call[u].comment)]]
    /\ UNCHANGED <<analyses, comments, frame>>
    /\ UNCHANGED <<userDocs, authCall, hook>>

\* lines 511-516: comments.list rejects.
CommentsListFails(u, error) ==
    /\ call[u].pc = "commentsList"
    /\ NoneSettled
    /\ call' = [call EXCEPT ![u] =
           [GatewayCalled(call[u], "comments.list") EXCEPT
               !.pc = "catch", !.error = error]]
    /\ UNCHANGED <<analyses, comments, frame>>
    /\ UNCHANGED <<userDocs, authCall, hook>>

\* lines 525-534: channels.list({mine}) resolves and the branch is chosen.
ChannelsList(u) ==
    /\ call[u].pc = "channelsList"
    /\ NoneSettled
    /\ LET authenticatedUserChannelId == ChannelOf(u) IN
       call' = [call EXCEPT ![u] =
           [GatewayCalled(call[u], "channels.list") EXCEPT
               !.authenticatedUserChannelId = authenticatedUserChannelId,
               !.pc = IF IsOwnComment(call[u].commentAuthorChannelId,
                                      authenticatedUserChannelId)
                      THEN "delete" ELSE "moderate"]]
    /\ UNCHANGED <<analyses, comments, frame>>
    /\ UNCHANGED <<userDocs, authCall, hook>>

\* lines 525-530: channels.list rejects.
ChannelsListFails(u, error) ==
    /\ call[u].pc = "channelsList"
    /\ NoneSettled
    /\ call' = [call EXCEPT ![u] =
           [GatewayCalled(call[u], "channels.list") EXCEPT
               !.pc = "catch", !.error = error]]
    /\ UNCHANGED <<analyses, comments, frame>>
    /\ UNCHANGED <<userDocs, authCall, hook>>

\* lines 539-541: deleteYoutubeComment resolves.
DeleteYoutubeComment(u) ==
    /\ call[u].pc = "delete"
    /\ NoneSettled
    /\ call' = [call EXCEPT ![u] =
           [GatewayCalled(call[u], "deleteYoutubeComment") EXCEPT
               !.pc = "updateDeleted"]]
    /\ UNCHANGED <<analyses, comments, frame>>
    /\ UNCHANGED <<userDocs, authCall, hook>>

\* lines 539-541: deleteYoutubeComment rejects.
DeleteYoutubeCommentFails(u, error) ==
    /\ call[u].pc = "delete"
    /\ NoneSettled
    /\ call' = [call EXCEPT ![u] =
           [GatewayCalled(call[u], "deleteYoutubeComment") EXCEPT
               !.pc = "catch", !.error = error]]
    /\ UNCHANGED <<analyses, comments, frame>>
    /\ UNCHANGED <<userDocs, authCall, hook>>

\* lines 558-564: moderateYoutubeComment(id, "likelySpam") resolves.
ModerateYoutubeComment(u) ==
    /\ call[u].pc = "moderate"
    /\ NoneSettled
    /\ call' = [call EXCEPT ![u] =
           [GatewayCalled(call[u], "moderateYoutubeComment") EXCEPT
               !.pc = "updateModerated"]]
    /\ UNCHANGED <<analyses, comments, frame>>
    /\ UNCHANGED <<userDocs, authCall, hook>>

\* lines 558-564: moderateYoutubeComment rejects.
ModerateYoutubeCommentFails(u, error) ==
    /\ call[u].pc = "moderate"
    /\ NoneSettled
    /\ call' = [call EXCEPT ![u] =
           [GatewayCalled(call[u], "moderateYoutubeComment") EXCEPT
               !.pc = "catch", !.error = error]]
    /\ UNCHANGED <<analyses, comments, frame>>
    /\ UNCHANGED <<userDocs, authCall, hook>>

\* The stored document with the _id the call was given.
StoredComment(store, analyzedCommentId) ==
    CHOOSE d \in store : d.id = analyzedCommentId

\* lines 543-552 and 578: the update after the delete resolves and the
\* updated document is returned.
UpdateDeleted(u) ==
    /\ call[u].pc = "updateDeleted"
    /\ NoneSettled
    /\ LET id == call[u].analyzedCommentId
           updated == DeletedUpdate(StoredComment(comments, id))
       IN /\ comments' = FindByIdAndUpdate(comments, id, updated)
          /\ call' = [call EXCEPT ![u] =
                 [@ EXCEPT !.pc = "returned", !.updatedComment = updated,
                           !.wrote = @ \cup {id}]]
    /\ UNCHANGED <<analyses, frame>>
    /\ UNCHANGED <<userDocs, authCall, hook>>

\* lines 566-575 and 578: the update after the moderation resolves.
UpdateModerated(u) ==
    /\ call[u].pc = "updateModerated"
    /\ NoneSettled
    /\ LET id == call[u].analyzedCommentId
           updated == ModeratedUpdate(StoredComment(comments, id))
       IN /\ comments' = FindByIdAndUpdate(comments, id, updated)
          /\ call' = [call EXCEPT ![u] =
                 [@ EXCEPT !.pc = "returned", !.updatedComment = updated,
                           !.wrote = @ \cup {id}]]
    /\ UNCHANGED <<analyses, frame>>
    /\ UNCHANGED <<userDocs, authCall, hook>>

\* lines 543 and 566: the update rejects, inside the try block, after the
\* platform has deleted or hidden the comment.
UpdateFails(u) ==
    /\ call[u].pc \in {"updateDeleted", "updateModerated"}
    /\ NoneSettled
    /\ call' = [call EXCEPT ![u] = [@ EXCEPT !.pc = "catch", !.error = DbError]]
    /\ UNCHANGED <<analyses, comments, frame>>
    /\ UNCHANGED <<userDocs, authCall, hook>>

\* lines 579-619: the catch block records the failure on the document and
\* throws the error mapped to the caller's taxonomy.
CatchAndUpdate(u) ==
    /\ call[u].pc = "catch"
    /\ NoneSettled
    /\ LET id == call[u].analyzedCommentId
           updated == FailedUpdate(StoredComment(comments, id), call[u].error)
       IN /\ comments' = FindByIdAndUpdate(comments, id, updated)
          /\ call' = [call EXCEPT ![u] =
                 [@ EXCEPT !.pc = "thrown",
                           !.caught = call[u].error,
                           !.error = Rethrown(call[u].error),
                           !.wrote = @ \cup {id}]]
    /\ UNCHANGED <<analyses, frame>>
    /\ UNCHANGED <<userDocs, authCall, hook>>

\* line 586: the update of the catch block rejects; its error is what the
\* caller gets.
CatchAndUpdateFails(u) ==
    /\ call[u].pc = "catch"
    /\ NoneSettled
    /\ call' = [call EXCEPT ![u] =
           [@ EXCEPT !.pc = "thrown", !.caught = call[u].error, !.error = DbError]]
    /\ UNCHANGED <<analyses, comments, frame>>
    /\ UNCHANGED <<userDocs, authCall, hook>>

(***************************************************************************)
(* getAnalysisResults.                                                     *)
(***************************************************************************)
\* line 211: the call.
GetAnalysisResults(u, videoAnalysisId) ==
    /\ call[u].pc = "idle"
    /\ frame[u].pc \in {"idle", "done"}
    /\ NoneSettled
    /\ call' = [call EXCEPT ![u] =
           [IdleCall EXCEPT !.op = "getAnalysisResults",
                            !.pc = "findAnalysis",
                            !.analysisId = videoAnalysisId]]
    /\ UNCHANGED <<analyses, comments, frame>>
    /\ UNCHANGED <<userDocs, authCall, hook>>

\* lines 212-215: VideoAnalysis.findOne({_id, userId}) finds a document.
VideoAnalysisFound(store, videoAnalysisId, userId) ==
    /\ videoAnalysisId \in DOMAIN store
    /\ store[videoAnalysisId].userId = userId

\* lines 212-221: findOne resolves; no document is NotFound.
FindOneVideoAnalysis(u) ==
    /\ call[u].pc = "findAnalysis"
    /\ NoneSettled
    /\ call' = [call EXCEPT ![u] =
           IF VideoAnalysisFound(analyses, call[u].analysisId, u)
           THEN [@ EXCEPT !.pc = "findComments"]
           ELSE [@ EXCEPT !.pc = "thrown",
                          !.error = AppError("NotFoundError",
                                             <<"Data", "analisis", "video", "tidak", "ditemukan">>)]]
    /\ UNCHANGED <<analyses, comments, frame>>
    /\ UNCHANGED <<userDocs, authCall, hook>>

\* The list query selecting by the video instead of the job.
FindAnalyzedCommentsOfVideo(u) ==
    /\ call[u].pc = "findComments"
    /\ NoneSettled
    /\ call' = [call EXCEPT ![u] =
           [@ EXCEPT !.pc = "returned",
                     !.analyzedComments =
                         { d \in comments :
                             d.youtubeVideoId =
                                 analyses[call[u].analysisId].youtubeVideoId }]]
    /\ UNCHANGED <<analyses, comments, frame>>
    /\ UNCHANGED <<userDocs, authCall, hook>>

\* lines 224-228: AnalyzedComment.find({analysisId}) resolves and the list
\* is returned.
FindAnalyzedComments(u) ==
    /\ call[u].pc = "findComments"
    /\ NoneSettled
    /\ call' = [call EXCEPT ![u] =
           [@ EXCEPT !.pc = "returned",
                     !.analyzedComments =
                         { d \in comments : d.analysisId = call[u].analysisId }]]
    /\ UNCHANGED <<analyses, comments, frame>>
    /\ UNCHANGED <<userDocs, authCall, hook>>

\* lines 212 and 224: a query of getAnalysisResults rejects.
GetAnalysisResultsFails(u) ==
    /\ call[u].pc \in {"findAnalysis", "findComments"}
    /\ NoneSettled
    /\ call' = [call EXCEPT ![u] = [@ EXCEPT !.pc = "thrown", !.error = DbError]]
    /\ UNCHANGED <<analyses, comments, frame>>
    /\ UNCHANGED <<userDocs, authCall, hook>>

(***************************************************************************)
(* Specifications.                                                         *)
(***************************************************************************)
\* The analysisId a caller may pass: that of a stored VideoAnalysis, or one
\* that no document has.
AnalysisIds == 1..(Len(analyses) + 1)

\* What fetchCommentsForVideo can resolve to, for a call that awaits it.
FetchResults(u) ==
    IF frame[u].pc = "fetch" THEN CommentThreadArrays ELSE {}

\* Every step but a rejected analysisEntry.save().
NextSavesSucceed ==
    \E u \in Users :
        \/ \E url \in Urls : StartVideoAnalysis(u, url)
        \/ GetAuthenticatedYouTubeClient(u)
        \/ GetAuthenticatedYouTubeClientFails(u)
        \/ CreateAnalysisEntry(u)
        \/ CreateAnalysisEntryFails(u)
        \/ GetVideoDetails(u)
        \/ GetVideoDetailsFails(u)
        \/ \E commentThreads \in FetchResults(u) :
               FetchCommentsForVideo(u, commentThreads)
        \/ FetchCommentsForVideoFails(u)
        \/ FindExistingComments(u)
        \/ FindExistingCommentsFails(u)
        \/ AwaitAiResults(u)
        \/ \E i \in DOMAIN frame[u].newCommentsToAnalyze : AwaitAiResultsFails(u, i)
        \/ \E i \in DOMAIN frame[u].results : CreateAnalyzedComment(u, i)
        \/ \E i \in DOMAIN frame[u].results : CreateAnalyzedCommentFails(u, i)
        \/ AwaitSaveOperations(u)
        \/ SaveAnalysisEntry(u)
        \/ CatchAndSave(u)
        \/ ReturnToCaller(u)
        \/ \E analysisId \in AnalysisIds :
               RequestBatchDeleteJudiComments(u, analysisId)
        \/ ReturnCall(u)

Next ==
    \/ NextSavesSucceed
    \/ \E u \in Users : SaveAnalysisEntryFails(u)
    \/ \E u \in Users : CatchAndSaveFails(u)

Spec == Init /\ [][Next]_vars

SpecSavesSucceed == Init /\ [][NextSavesSucceed]_vars

(***************************************************************************)
(* The other exports, called on a store that two analyses have filled.     *)
(***************************************************************************)
\* The Job Records after u1 analysed a video with one comment (Ug1) and u2
\* then analysed it when it had two (Ug1, Ug2) and lost the connection to the
\* store at the final save.
AnalysedJobs ==
    << [NewVideoAnalysis("u1", "vid1") EXCEPT
           !.videoTitle = VideoTitle("vid1"),
           !.status = "COMPLETED",
           !.completedAt = "set",
           !.totalCommentsFetched = 1,
           !.totalCommentsAnalyzed = 1],
       [NewVideoAnalysis("u2", "vid1") EXCEPT
           !.videoTitle = VideoTitle("vid1"),
           !.status = "FAILED",
           !.completedAt = "set",
           !.totalCommentsFetched = 2,
           !.totalCommentsAnalyzed = 1,
           !.errorMessage = "DB_ERROR"] >>

\* The Analyzed Comments of those two runs.
AnalysedComments ==
    { DocumentToSave(<<1, 1>>, 1, "u1", "vid1",
                     [id |-> Ug1, hasSnippet |-> TRUE, authorChannelId |-> "chA",
                      textOriginal |-> "slot gacor"],
                     AnalyzeTextWithAI("slot gacor")),
      DocumentToSave(<<2, 1>>, 2, "u2", "vid1",
                     [id |-> Ug2, hasSnippet |-> TRUE, authorChannelId |-> "chB",
                      textOriginal |-> "nice video"],
                     AnalyzeTextWithAI("nice video")) }

\* Both analyses have been taken by their callers.
InitRemediation ==
    /\ analyses = AnalysedJobs
    /\ comments = AnalysedComments
    /\ frame = [u \in Users |-> [IdleFrame EXCEPT !.pc = "done"]]
    /\ call = [u \in Users |-> IdleCall]
    /\ userDocs = {}
    /\ authCall = [c \in Clients |-> IdleAuthCall]
    /\ hook = IdleHook

\* The errors a platform call of u can reject with, for a call that awaits
\* one: any of them for a delete or a moderation, those that do not depend
\* on the comment for the two list calls.
Rejections(u) ==
    IF call[u].pc \in {"delete", "moderate"} THEN UpstreamErrors
    ELSE IF call[u].pc \in {"commentsList", "channelsList"}
    THEN { e \in UpstreamErrors : e.code \in {400, 500} }
    ELSE {}

\* What comments.list can resolve to, for a call that awaits it.
ListResults(u) ==
    IF call[u].pc = "commentsList" THEN CommentsListItems ELSE {}

NextRemediation ==
    \E u \in Users :
        \/ \E analyzedCommentId \in AnalyzedCommentIds :
               \E youtubeCommentId \in YoutubeCommentIds :
                   RequestDeleteYoutubeComment(u, analyzedCommentId, youtubeCommentId)
        \/ FindOneComment(u)
        \/ FindOneCommentFails(u)
        \/ GetClientForComment(u)
        \/ GetClientForCommentFails(u)
        \/ \E items \in ListResults(u) : CommentsList(u, items)
        \/ \E error \in Rejections(u) : CommentsListFails(u, error)
        \/ ChannelsList(u)
        \/ \E error \in Rejections(u) : ChannelsListFails(u, error)
        \/ DeleteYoutubeComment(u)
        \/ \E error \in Rejections(u) : DeleteYoutubeCommentFails(u, error)
        \/ ModerateYoutubeComment(u)
        \/ \E error \in Rejections(u) : ModerateYoutubeCommentFails(u, error)
        \/ UpdateDeleted(u)
        \/ UpdateModerated(u)
        \/ UpdateFails(u)
        \/ CatchAndUpdate(u)
        \/ CatchAndUpdateFails(u)
        \/ \E videoAnalysisId \in AnalysisIds : GetAnalysisResults(u, videoAnalysisId)
        \/ FindOneVideoAnalysis(u)
        \/ FindAnalyzedComments(u)
        \/ GetAnalysisResultsFails(u)
        \/ \E analysisId \in AnalysisIds :
               RequestBatchDeleteJudiComments(u, analysisId)
        \/ ReturnCall(u)

SpecRemediation == InitRemediation /\ [][NextRemediation]_vars

(***************************************************************************)
(* An analysis that runs while the comments of an earlier one are          *)
(* remediated.                                                             *)
(***************************************************************************)
\* u1 has analysed a video with one comment (Ug1) and taken the result; u2
\* has not called yet.
InitAnalysisDuringRemediation ==
    /\ analyses = SubSeq(AnalysedJobs, 1, 1)
    /\ comments = { d \in AnalysedComments : d.analysisId = 1 }
    /\ frame = [u \in Users |->
                   IF u = "u1" THEN [IdleFrame EXCEPT !.pc = "done"] ELSE IdleFrame]
    /\ call = [u \in Users |-> IdleCall]
    /\ userDocs = {}
    /\ authCall = [c \in Clients |-> IdleAuthCall]
    /\ hook = IdleHook

\* u2 runs startVideoAnalysis; u1 calls requestDeleteYoutubeComment and
\* requestBatchDeleteJudiComments.
NextAnalysisDuringRemediation ==
    \/ \E u \in {"u2"} :
        \/ \E url \in Urls : StartVideoAnalysis(u, url)
        \/ GetAuthenticatedYouTubeClient(u)
        \/ GetAuthenticatedYouTubeClientFails(u)
        \/ CreateAnalysisEntry(u)
        \/ CreateAnalysisEntryFails(u)
        \/ GetVideoDetails(u)
        \/ GetVideoDetailsFails(u)
        \/ \E commentThreads \in FetchResults(u) :
               FetchCommentsForVideo(u, commentThreads)
        \/ FetchCommentsForVideoFails(u)
        \/ FindExistingComments(u)
        \/ FindExistingCommentsFails(u)
        \/ AwaitAiResults(u)
        \/ \E i \in DOMAIN frame[u].newCommentsToAnalyze : AwaitAiResultsFails(u, i)
        \/ \E i \in DOMAIN frame[u].results : CreateAnalyzedComment(u, i)
        \/ \E i \in DOMAIN frame[u].results : CreateAnalyzedCommentFails(u, i)
        \/ AwaitSaveOperations(u)
        \/ SaveAnalysisEntry(u)
        \/ SaveAnalysisEntryFails(u)
        \/ CatchAndSave(u)
        \/ CatchAndSaveFails(u)
        \/ ReturnToCaller(u)
    \/ \E u \in {"u1"} :
        \/ \E analyzedCommentId \in AnalyzedCommentIds :
               \E youtubeCommentId \in YoutubeCommentIds :
                   RequestDeleteYoutubeComment(u, analyzedCommentId, youtubeCommentId)
        \/ FindOneComment(u)
        \/ FindOneCommentFails(u)
        \/ GetClientForComment(u)
        \/ GetClientForCommentFails(u)
        \/ \E items \in ListResults(u) : CommentsList(u, items)
        \/ \E error \in Rejections(u) : CommentsListFails(u, error)
        \/ ChannelsList(u)
        \/ \E error \in Rejections(u) : ChannelsListFails(u, error)
        \/ DeleteYoutubeComment(u)
        \/ \E error \in Rejections(u) : DeleteYoutubeCommentFails(u, error)
        \/ ModerateYoutubeComment(u)
        \/ \E error \in Rejections(u) : ModerateYoutubeCommentFails(u, error)
        \/ UpdateDeleted(u)
        \/ UpdateModerated(u)
        \/ UpdateFails(u)
        \/ CatchAndUpdate(u)
        \/ CatchAndUpdateFails(u)
        \/ \E analysisId \in AnalysisIds :
               RequestBatchDeleteJudiComments(u, analysisId)
        \/ ReturnCall(u)

SpecAnalysisDuringRemediation ==
    InitAnalysisDuringRemediation /\ [][NextAnalysisDuringRemediation]_vars

(***************************************************************************)
(* A later analysis of a video whose comments an earlier one has stored,   *)
(* and the reading of its results.                                         *)
(***************************************************************************)
\* From the store u1's analysis left: u2 runs startVideoAnalysis, and both
\* users call getAnalysisResults and requestBatchDeleteJudiComments.
NextLaterAnalysis ==
    \/ \E u \in {"u2"} :
        \/ \E url \in Urls : StartVideoAnalysis(u, url)
        \/ GetAuthenticatedYouTubeClient(u)
        \/ GetAuthenticatedYouTubeClientFails(u)
        \/ CreateAnalysisEntry(u)
        \/ CreateAnalysisEntryFails(u)
        \/ GetVideoDetails(u)
        \/ GetVideoDetailsFails(u)
        \/ \E commentThreads \in FetchResults(u) :
               FetchCommentsForVideo(u, commentThreads)
        \/ FetchCommentsForVideoFails(u)
        \/ FindExistingComments(u)
        \/ FindExistingCommentsFails(u)
        \/ AwaitAiResults(u)
        \/ \E i \in DOMAIN frame[u].newCommentsToAnalyze : AwaitAiResultsFails(u, i)
        \/ \E i \in DOMAIN frame[u].results : CreateAnalyzedComment(u, i)
        \/ \E i \in DOMAIN frame[u].results : CreateAnalyzedCommentFails(u, i)
        \/ AwaitSaveOperations(u)
        \/ SaveAnalysisEntry(u)
        \/ SaveAnalysisEntryFails(u)
        \/ CatchAndSave(u)
        \/ CatchAndSaveFails(u)
        \/ ReturnToCaller(u)
    \/ \E u \in Users :
        \/ \E videoAnalysisId \in AnalysisIds : GetAnalysisResults(u, videoAnalysisId)
        \/ FindOneVideoAnalysis(u)
        \/ FindAnalyzedComments(u)
        \/ GetAnalysisResultsFails(u)
        \/ \E analysisId \in AnalysisIds :
               RequestBatchDeleteJudiComments(u, analysisId)
        \/ ReturnCall(u)

SpecLaterAnalysis == InitAnalysisDuringRemediation /\ [][NextLaterAnalysis]_vars

(***************************************************************************)
(* Every call up to its first await: the validation of the arguments.      *)
(***************************************************************************)
NextValidation ==
    \E u \in Users :
        \/ \E url \in Urls : StartVideoAnalysis(u, url)
        \/ \E analyzedCommentId \in AnalyzedCommentIds :
               \E youtubeCommentId \in YoutubeCommentIds :
                   RequestDeleteYoutubeComment(u, analyzedCommentId, youtubeCommentId)
        \/ ReturnToCaller(u)
        \/ ReturnCall(u)

SpecValidation == (Init \/ InitRemediation) /\ [][NextValidation]_vars

(***************************************************************************)
(* Properties.                                                             *)
(***************************************************************************)
\* The AnalyzedComment documents the call of u has inserted.
DocsOf(u) == { d \in comments : d.analysisId = frame[u].entryId }

AiCallIds(u) == { frame[u].aiCalls[k] : k \in DOMAIN frame[u].aiCalls }

\* The creates of the call of u that resolved.
Fulfilled(u) ==
    { i \in DOMAIN frame[u].results :
        frame[u].results[i].state = "settled" /\ frame[u].results[i].value = 1 }

\* The creates of the call of u that rejected.
Rejected(u) ==
    { i \in DOMAIN frame[u].results :
        frame[u].results[i].state = "settled" /\ frame[u].results[i].value = 0 }

\* C1: a fetched comment whose id is in the store when the dedup query runs
\* is not handed to the classifier by that call and gets no document from
\* it; a call that finds every fetched id in the store classifies nothing
\* and adds nothing to the store.
C1_StoredCommentsAreSkipped ==
    \A u \in Users :
        /\ \A id \in frame[u].storedAtQuery :
              /\ id \notin AiCallIds(u)
              /\ \A d \in DocsOf(u) : d.youtubeCommentId # id
        /\ (/\ frame[u].pc \in {"save", "returned"}
            /\ frame[u].validComments # <<>>
            /\ CommentIdsFromYouTube(frame[u].validComments)
                   \subseteq frame[u].storedAtQuery)
           => (AiCallIds(u) = {} /\ DocsOf(u) = {})

\* A call has returned after a dedup query that found fetched ids in the
\* store, and the store still holds exactly one document for each.
C1_Witness ==
    \E u \in Users :
        /\ frame[u].pc = "returned"
        /\ frame[u].storedAtQuery # {}
        /\ frame[u].storedAtQuery # CommentIdsFromYouTube(frame[u].validComments)

\* C2: the store never holds two documents with one youtubeCommentId.
C2_OneDocumentPerCommentId ==
    \A d1 \in comments : \A d2 \in comments :
        d1.youtubeCommentId = d2.youtubeCommentId => d1 = d2

\* Two calls both passed the dedup query with the same new id; one has
\* inserted it and the other's create was rejected.
C2_Witness ==
    \E u \in Users : \E i \in Rejected(u) :
        \E d \in comments :
            /\ d.youtubeCommentId = frame[u].newCommentsToAnalyze[i].id
            /\ d.analysisId # frame[u].entryId

\* C3: in every stored VideoAnalysis document and in every in-memory one,
\* totalCommentsAnalyzed <= totalCommentsFetched.
C3_AnalyzedAtMostFetched ==
    /\ \A a \in DOMAIN analyses :
          analyses[a].totalCommentsAnalyzed <= analyses[a].totalCommentsFetched
    /\ \A u \in Users :
          frame[u].entryId # 0 =>
              frame[u].analysisEntry.totalCommentsAnalyzed
                  <= frame[u].analysisEntry.totalCommentsFetched

\* A stored COMPLETED document in which every fetched comment was analyzed,
\* beside a stored FAILED one.
C3_Witness ==
    \E a \in DOMAIN analyses : \E b \in DOMAIN analyses :
        /\ analyses[a].status = "COMPLETED"
        /\ analyses[a].totalCommentsFetched > 1
        /\ analyses[a].totalCommentsAnalyzed = analyses[a].totalCommentsFetched
        /\ analyses[b].status = "FAILED"
        /\ analyses[b].totalCommentsFetched > 0

C5_EntryCreatedBeforeExternalCalls ==
    \A u \in Users :
        /\ frame[u].callsBeforeEntry = {}
        /\ (frame[u].pc = "thrown"
            /\ frame[u].error \in {"YOUTUBE_AUTH_ERROR", "YOUTUBE_API_ERROR",
                                   "AI_SERVICE_ERROR"})
           => frame[u].entryId # 0

\* C6: a call that throws a job-level error (authentication, fetch, quota)
\* has a stored VideoAnalysis document with status FAILED and errorMessage
\* equal to the error thrown.
C6_JobLevelErrorIsPersisted ==
    \A u \in Users :
        (frame[u].pc = "thrown"
         /\ frame[u].error \in {"YOUTUBE_AUTH_ERROR", "YOUTUBE_API_ERROR"})
        => /\ frame[u].entryId # 0
           /\ analyses[frame[u].entryId].status = "FAILED"
           /\ analyses[frame[u].entryId].errorMessage = frame[u].error

\* The comment is well formed in the sense of the claims: an id with the
\* platform's prefix, a snippet and an author channel.
WellFormed(c) == IsStructurallyValid(c) /\ StartsWithUg(c.id)

\* C7: a fetched comment that fails the structural validation (no id, an id
\* without the prefix, no author channel) is dropped: it never becomes a
\* candidate and it never makes the call fail.
C7_InvalidCommentsAreDropped ==
    \A u \in Users :
        /\ frame[u].error # "INVALID_COMMENT_ID_FORMAT"
        /\ \A k \in DOMAIN frame[u].validComments :
              WellFormed(frame[u].validComments[k])
        /\ (/\ frame[u].fetched
            /\ frame[u].fetchedCount > frame[u].fetchedWellFormed
            /\ Settled(u)
            /\ frame[u].error = Null)
           => frame[u].analysisEntry.status = "COMPLETED"

\* C8: a call in which one of several classifier calls rejected is not
\* aborted by it: it returns COMPLETED, and the other new comments were
\* handed to the store and are counted.
C8_ClassifierFailureIsPerItem ==
    \A u \in Users :
        (/\ frame[u].aiRejected # 0
         /\ Len(frame[u].newCommentsToAnalyze) > 1
         /\ Settled(u)) =>
            /\ frame[u].pc = "returned"
            /\ analyses[frame[u].entryId].status = "COMPLETED"
            /\ \A i \in DOMAIN frame[u].newCommentsToAnalyze :
                  i # frame[u].aiRejected =>
                      frame[u].results[i].state = "settled"
            /\ analyses[frame[u].entryId].totalCommentsAnalyzed
                   = Cardinality(DocsOf(u))

C10_CountersMatchFetchedAndValid ==
    \A u \in Users :
        (frame[u].fetched /\ Settled(u)) =>
            /\ frame[u].analysisEntry.totalCommentsFetched = frame[u].fetchedCount
            /\ (/\ frame[u].storedAtQuery = {}
                /\ frame[u].aiRejected = 0
                /\ Rejected(u) = {}
                /\ frame[u].error # "DB_ERROR")
               => frame[u].analysisEntry.totalCommentsAnalyzed
                      = frame[u].fetchedWellFormed

\* C11: a VideoAnalysis document enters the collection with status
\* PROCESSING, and a step changes its stored status only from PROCESSING to
\* COMPLETED or from PROCESSING to FAILED.
C11_StatusOnlyLeavesProcessing ==
    [][\A a \in DOMAIN analyses' :
          IF a \in DOMAIN analyses
          THEN \/ analyses'[a].status = analyses[a].status
               \/ /\ analyses[a].status = "PROCESSING"
                  /\ analyses'[a].status \in {"COMPLETED", "FAILED"}
          ELSE analyses'[a].status = "PROCESSING"]_vars

\* Both transitions have happened and both callers have their result: the
\* store is the one the remediation calls start from.
C11_Witness ==
    /\ analyses = AnalysedJobs
    /\ comments = AnalysedComments
    /\ \A u \in Users : frame[u].pc = "done"

\* The statuses that mean failure.
FailureStates == {"FAILED", "FAILED_ALL_DELETIONS"}

Remediating(u) == call[u].op = "requestDeleteYoutubeComment"

\* The call of u loaded a document that was marked deleted or moderated.
LoadedRemoved(u) ==
    /\ Remediating(u)
    /\ call[u].comment # NoComment
    /\ (call[u].comment.isDeletedOnYoutube \/ call[u].comment.isModeratedOnYoutube)

\* C13: a call that loads a document already marked deleted or moderated
\* returns that document at once: it has made no platform call (not even
\* for the client), has written nothing, and the stored document is the one
\* returned.
C13_AlreadyRemovedIsNoOp ==
    \A u \in Users :
        LoadedRemoved(u) =>
            /\ call[u].pc = "returned"
            /\ call[u].updatedComment = call[u].comment
            /\ call[u].comment \in comments
            /\ call[u].gatewayCalls = {}
            /\ call[u].wrote = {}

\* A call on a moderated document has returned.
C13_Witness ==
    \E u \in Users :
        /\ LoadedRemoved(u)
        /\ call[u].comment.isModeratedOnYoutube
        /\ call[u].pc = "returned"

\* The call of u has chosen between delete and moderate.
Decided(u) ==
    /\ Remediating(u)
    /\ call[u].authenticatedUserChannelId # Null

\* C14: once both channels are read, the call goes for the permanent delete
\* exactly when the author channel the platform returned equals the channel
\* of the caller, and for the moderation otherwise; it never makes both
\* calls; a call that returns after a delete has stored isDeletedOnYoutube
\* true and isModeratedOnYoutube false, after a moderation the reverse, in
\* both cases with deletionError null and deletionAttemptedAt set.
C14_DeleteIffOwnedOnPlatform ==
    \A u \in Users :
        /\ (Remediating(u) /\ ~Decided(u)) =>
              call[u].gatewayCalls \cap {"deleteYoutubeComment", "moderateYoutubeComment"} = {}
        /\ Decided(u) =>
              LET own == call[u].platformAuthorChannelId = ChannelOf(u) IN
              /\ "moderateYoutubeComment" \in call[u].gatewayCalls => ~own
              /\ "deleteYoutubeComment" \in call[u].gatewayCalls => own
              /\ call[u].pc \in {"delete", "updateDeleted"} => own
              /\ call[u].pc \in {"moderate", "updateModerated"} => ~own
              /\ call[u].pc = "returned" =>
                    /\ call[u].updatedComment \in comments
                    /\ call[u].updatedComment.isDeletedOnYoutube = own
                    /\ call[u].updatedComment.isModeratedOnYoutube = ~own
                    /\ call[u].updatedComment.deletionError = NoDeletionError
                    /\ call[u].updatedComment.deletionAttemptedAt = "set"
                    /\ call[u].gatewayCalls \cap {"deleteYoutubeComment", "moderateYoutubeComment"}
                           = IF own THEN {"deleteYoutubeComment"}
                                    ELSE {"moderateYoutubeComment"}

\* A call has moderated a comment whose stored author channel is the
\* caller's own, because the platform now names another author.
C14_Witness ==
    \E u \in Users :
        /\ Decided(u)
        /\ call[u].pc = "returned"
        /\ call[u].comment.authorChannelId = ChannelOf(u)
        /\ call[u].platformAuthorChannelId # ChannelOf(u)
        /\ call[u].updatedComment.isModeratedOnYoutube

C16_DeletionErrorOnlyAfterFailure ==
    [][/\ \A d \in comments' :
             /\ (d.isDeletedOnYoutube \/ d.isModeratedOnYoutube)
                    => d.deletionError = NoDeletionError
             /\ (d.deletionError # NoDeletionError /\ d \notin comments) =>
                    \E u \in Users :
                        /\ call[u].pc # "thrown"
                        /\ call'[u].pc = "thrown"
                        /\ call'[u].analyzedCommentId = d.id
       /\ \A u \in Users :
             (/\ call'[u].op = "requestDeleteYoutubeComment"
              /\ call[u].pc # "returned"
              /\ call'[u].pc = "returned") =>
                 \A d \in comments' :
                     d.id = call'[u].analyzedCommentId
                         => d.deletionError = NoDeletionError]_vars

\* A comment carries the message of a failed attempt while another one,
\* attempted too, is marked deleted.
C16_Witness ==
    /\ \E d \in comments :
          d.deletionError # NoDeletionError /\ d.deletionAttemptedAt = "set"
    /\ \E d \in comments :
          d.isDeletedOnYoutube /\ d.deletionAttemptedAt = "set"

\* C17: a call that throws after it loaded a document not yet marked
\* deleted or moderated leaves that document with deletionAttemptedAt set,
\* a deletionError and both marks false (store failures aside).
C17_FailureIsRecorded ==
    \A u \in Users :
        (/\ Remediating(u)
         /\ call[u].pc = "thrown"
         /\ call[u].comment # NoComment
         /\ call[u].error # DbError) =>
            \E d \in comments :
                /\ d.id = call[u].analyzedCommentId
                /\ d.deletionAttemptedAt = "set"
                /\ d.deletionError # NoDeletionError
                /\ ~d.isDeletedOnYoutube
                /\ ~d.isModeratedOnYoutube

C19_InvalidInputFailsFirst ==
    [][\A u \in Users :
          /\ (/\ frame[u].pc = "idle"
              /\ frame'[u].pc # "idle"
              /\ frame'[u].youtubeVideoId = Null) =>
                 /\ frame'[u].pc = "thrown"
                 /\ frame'[u].error = "BadRequestError"
                 /\ frame'[u].externalCalls = {}
                 /\ frame'[u].entryId = 0
                 /\ UNCHANGED <<analyses, comments>>
          /\ (/\ call[u].pc = "idle"
              /\ call'[u].op = "requestDeleteYoutubeComment"
              /\ \/ call'[u].analyzedCommentId = MalformedId
                 \/ call'[u].youtubeCommentId = Xy9) =>
                 /\ call'[u].pc = "thrown"
                 /\ call'[u].error.class = "BadRequestError"
                 /\ call'[u].gatewayCalls = {}
                 /\ call'[u].wrote = {}
                 /\ UNCHANGED <<analyses, comments>>]_vars

\* A call given the id of a stored comment and a youtubeCommentId without
\* the prefix has thrown.
C19_Witness ==
    \E u \in Users :
        /\ Remediating(u)
        /\ call[u].pc = "thrown"
        /\ call[u].youtubeCommentId = Xy9
        /\ \E d \in comments : d.id = call[u].analyzedCommentId

\* C20: a settled call whose target is absent or belongs to another user
\* has thrown NotFoundError without a platform call and without a write
\* (store failures aside), for requestDeleteYoutubeComment, for
\* getAnalysisResults and for requestBatchDeleteJudiComments; and no call
\* has written a document of another user.
C20_ForeignOrAbsentIsNotFound ==
    \A u \in Users :
        /\ \A id \in call[u].wrote :
              \A d \in comments : d.id = id => d.userId = u
        /\ (/\ call[u].pc \in {"returned", "thrown"}
            /\ call[u].error # DbError
            /\ \/ /\ Remediating(u)
                  /\ call[u].error.class # "BadRequestError"
                  /\ \A d \in comments :
                        ~(/\ d.id = call[u].analyzedCommentId
                          /\ d.userId = u
                          /\ d.youtubeCommentId = call[u].youtubeCommentId)
               \/ /\ call[u].op \in {"getAnalysisResults",
                                     "requestBatchDeleteJudiComments"}
                  /\ \/ call[u].analysisId \notin DOMAIN analyses
                     \/ analyses[call[u].analysisId].userId # u) =>
               /\ call[u].pc = "thrown"
               /\ call[u].error.class = "NotFoundError"
               /\ call[u].gatewayCalls = {}
               /\ call[u].wrote = {}
               /\ call[u].analyzedComments = {}

(***************************************************************************)
(* requestBatchDeleteJudiComments: what a settled call has done.           *)
(***************************************************************************)
Batching(u) == call[u].op = "requestBatchDeleteJudiComments"

\* The documents of a job that carry the flagged label.
Flagged(analysisId) ==
    { d \in comments : d.analysisId = analysisId /\ d.classification = "JUDI" }

\* A settled batch call of u on a job that u owns.
BatchSettledOnOwnJob(u) ==
    /\ Batching(u)
    /\ call[u].pc \in {"returned", "thrown"}
    /\ call[u].error # DbError
    /\ call[u].analysisId \in DOMAIN analyses
    /\ analyses[call[u].analysisId].userId = u

\* The job had a target when the call began: a flagged document that is not
\* marked deleted, or one that this call marked.
HadTargets(u) ==
    \E d \in Flagged(call[u].analysisId) :
        ~d.isDeletedOnYoutube \/ d.id \in call[u].wrote

BatchFinalStatuses ==
    {"COMPLETED_ALL_DELETIONS_SUCCESSFULLY",
     "COMPLETED_DELETION_WITH_PARTIAL_ERRORS",
     "FAILED_ALL_DELETIONS"}

\* C21: a settled batch call on an owned job that had N >= 1 targets has
\* returned a summary with totalTargeted = N = successes + failures, the Job
\* Record carries the same two counts, and its status is the all-successful
\* one when nothing failed, the all-failed one when nothing succeeded and
\* the partial one otherwise.
C21_BatchCountsAndStatus ==
    \A u \in Users :
        (BatchSettledOnOwnJob(u) /\ HadTargets(u)) =>
            /\ call[u].pc = "returned"
            /\ call[u].summary # NoSummary
            /\ LET s == call[u].summary
                   job == analyses[call[u].analysisId]
               IN  /\ s.totalTargeted >= 1
                   /\ s.totalTargeted = s.successfullyDeleted + s.failedToDelete
                   /\ job.lastBatchDeletionSuccessCount = s.successfullyDeleted
                   /\ job.lastBatchDeletionFailureCount = s.failedToDelete
                   /\ job.status =
                        IF s.failedToDelete = 0
                        THEN "COMPLETED_ALL_DELETIONS_SUCCESSFULLY"
                        ELSE IF s.successfullyDeleted = 0
                        THEN "FAILED_ALL_DELETIONS"
                        ELSE "COMPLETED_DELETION_WITH_PARTIAL_ERRORS"

\* C22: the summary a settled batch call returned lists each target that is
\* still not marked deleted once, by its youtubeCommentId and with an error,
\* and lists no target that is marked deleted.
C22_FailuresListTheFailedTargets ==
    \A u \in Users :
        (BatchSettledOnOwnJob(u) /\ HadTargets(u)) =>
            /\ call[u].pc = "returned"
            /\ call[u].summary # NoSummary
            /\ LET failures == call[u].summary.failures
                   failed == { d \in Flagged(call[u].analysisId) :
                                  ~d.isDeletedOnYoutube }
               IN  /\ Len(failures) = Cardinality(failed)
                   /\ \A d \in failed :
                         \E i \in 1..Len(failures) :
                             /\ failures[i].youtubeCommentId = d.youtubeCommentId
                             /\ failures[i].error # NoDeletionError
                   /\ \A i \in 1..Len(failures) :
                         \E d \in failed :
                             failures[i].youtubeCommentId = d.youtubeCommentId

\* C23: a settled batch call on an owned job without a flagged document that
\* is not marked deleted has returned the summary of zeros with no failure,
\* has called no gateway and has written nothing.
C23_NoTargetsIsNoOp ==
    \A u \in Users :
        (BatchSettledOnOwnJob(u) /\ ~HadTargets(u)) =>
            /\ call[u].pc = "returned"
            /\ call[u].summary = [totalTargeted |-> 0,
                                  successfullyDeleted |-> 0,
                                  failedToDelete |-> 0,
                                  failures |-> <<>>]
            /\ call[u].gatewayCalls = {}
            /\ call[u].wrote = {}

\* C24: when a batch call on an owned job has settled, every target has been
\* attempted (its deletionAttemptedAt is set and the call wrote it), whatever
\* happened to the other targets, and the Job Record holds a final status of
\* the batch and a completion time.
C24_EveryTargetIsAttempted ==
    \A u \in Users :
        (BatchSettledOnOwnJob(u) /\ HadTargets(u)) =>
            /\ \A d \in Flagged(call[u].analysisId) :
                  ~d.isDeletedOnYoutube =>
                      d.deletionAttemptedAt = "set" /\ d.id \in call[u].wrote
            /\ analyses[call[u].analysisId].status \in BatchFinalStatuses
            /\ analyses[call[u].analysisId].completedAt = "set"

\* C25: when a batch call on an owned job has settled, each target is where
\* requestDeleteYoutubeComment would have left it: a comment of the caller's
\* own channel is marked deleted, a comment of another channel is marked
\* moderated and not deleted, or the failure is recorded in deletionError.
C25_BatchActsAsSingleRemediation ==
    \A u \in Users :
        (BatchSettledOnOwnJob(u) /\ HadTargets(u)) =>
            \A d \in Flagged(call[u].analysisId) :
                \/ d.deletionError # NoDeletionError
                \/ /\ d.authorChannelId = ChannelOf(u)
                   /\ d.isDeletedOnYoutube
                   /\ ~d.isModeratedOnYoutube
                \/ /\ d.authorChannelId # ChannelOf(u)
                   /\ d.isModeratedOnYoutube
                   /\ ~d.isDeletedOnYoutube

\* C26: a batch call on an owned job that had targets has stamped
\* lastBatchDeletionAttemptAt on the Job Record by the time it settles, and
\* a Job Record in DELETING_CLASSIFIED_COMMENTS only moves to one of the
\* three final statuses of the batch.
C26_DeletingPrecedesTheFinalStatus ==
    /\ [](\A u \in Users :
            (BatchSettledOnOwnJob(u) /\ HadTargets(u)) =>
                analyses[call[u].analysisId].lastBatchDeletionAttemptAt = "set")
    /\ [][\A i \in DOMAIN analyses :
            (/\ analyses[i].status = "DELETING_CLASSIFIED_COMMENTS"
             /\ analyses'[i].status # analyses[i].status) =>
                analyses'[i].status \in BatchFinalStatuses]_vars

\* C27: no step changes the classification, the confidence score, the model
\* version, the text, the youtubeCommentId, the analysisId, the userId (or
\* the video and the author's channel) of a stored Analyzed Comment, and no
\* step removes one: every stored document is still stored after the step,
\* equal in all but isDeletedOnYoutube, isModeratedOnYoutube,
\* deletionAttemptedAt and deletionError.
C27_AnalyzedCommentIsImmutable ==
    [][\A d \in comments :
          \E e \in comments' :
              e = [d EXCEPT !.isDeletedOnYoutube = e.isDeletedOnYoutube,
                            !.isModeratedOnYoutube = e.isModeratedOnYoutube,
                            !.deletionAttemptedAt = e.deletionAttemptedAt,
                            !.deletionError = e.deletionError]]_vars

\* u1's comment carries the record of a failed remediation and of nothing
\* else, next to a comment that u2's analysis stored afterwards.
C27_Witness ==
    /\ \E d \in comments :
          /\ d.id = <<1, 1>>
          /\ d.deletionError # NoDeletionError
          /\ d.classification = "JUDI"
    /\ \E d \in comments : d.analysisId = 2
    /\ frame["u2"].pc = "done"

\* The errors of a call that ended before or at VideoAnalysis.create: the
\* URL has no video id (lines 23-27), getAuthenticatedYouTubeClient rejected
\* (lines 29-31), the create rejected (lines 35-41).
ErrorsWithoutEntry == {"BadRequestError", "YOUTUBE_AUTH_ERROR", "DB_ERROR"}

Won(u, id) ==
    { i \in Fulfilled(u) : frame[u].newCommentsToAnalyze[i].id = id }

Lost(u, id) ==
    { i \in Rejected(u) : frame[u].newCommentsToAnalyze[i].id = id }

C30_PersistsOfOneRunAreDistinct ==
    \A u \in Users :
        \A i \in DOMAIN frame[u].newCommentsToAnalyze :
            \A j \in DOMAIN frame[u].newCommentsToAnalyze :
                frame[u].newCommentsToAnalyze[i].id =
                    frame[u].newCommentsToAnalyze[j].id => i = j

\* C31: a VideoAnalysis document in PROCESSING is that of a call still in
\* flight, which has a step left to take: once the call that created a
\* document has settled, the document is COMPLETED or FAILED, also when a
\* save of the document was rejected; and no document is left in
\* DELETING_CLASSIFIED_COMMENTS by a settled batch call.
C31_NoJobRecordStaysInFlight ==
    /\ \A j \in DOMAIN analyses :
          analyses[j].status = "PROCESSING" =>
              \E u \in Users : frame[u].entryId = j /\ InFlight(u)
    /\ \A u \in Users :
          (Batching(u) /\ call[u].pc \in {"returned", "thrown"}
           /\ call[u].analysisId \in DOMAIN analyses) =>
              analyses[call[u].analysisId].status # "DELETING_CLASSIFIED_COMMENTS"

\* C32: a settled batch call on an owned job has returned a summary whose
\* totalTargeted is the number of flagged documents that were not marked
\* deleted when it began, which are those an earlier batch failed on; when
\* there is none it has written nothing and the summary is all zeros.
C32_RetryTargetsTheFailedSubset ==
    \A u \in Users :
        BatchSettledOnOwnJob(u) =>
            LET targets == { d \in Flagged(call[u].analysisId) :
                                ~d.isDeletedOnYoutube \/ d.id \in call[u].wrote }
            IN  /\ call[u].pc = "returned"
                /\ call[u].summary # NoSummary
                /\ call[u].summary.totalTargeted = Cardinality(targets)
                /\ targets = {} =>
                      /\ call[u].wrote = {}
                      /\ call[u].summary.successfullyDeleted = 0
                      /\ call[u].summary.failedToDelete = 0

\* C33: while the catch block of a call runs and after the call has thrown,
\* every document the call created is in the store as it was created.
C33_FailedRunKeepsItsComments ==
    \A u \in Users :
        frame[u].pc \in {"catch", "thrown"} =>
            \A i \in Fulfilled(u) :
                LET comment == frame[u].newCommentsToAnalyze[i] IN
                DocumentToSave(<<frame[u].entryId, i>>, frame[u].entryId, u,
                               frame[u].youtubeVideoId, comment,
                               AnalyzeTextWithAI(comment.textOriginal)) \in comments

\* A call has thrown after it stored a comment, and its VideoAnalysis
\* document is stored as FAILED.
C33_Witness ==
    \E u \in Users :
        /\ frame[u].pc = "thrown"
        /\ Fulfilled(u) # {}
        /\ analyses[frame[u].entryId].status = "FAILED"

\* The platform call of the call of u, a delete or a moderation, resolved:
\* the call went on to its update, and if it is in the catch block or has
\* thrown, then for the store's error and not for one of the platform.
PlatformSucceeded(u, name) ==
    /\ Remediating(u)
    /\ name \in call[u].gatewayCalls
    /\ \/ call[u].pc \in {"updateDeleted", "updateModerated", "returned"}
       \/ call[u].pc = "catch" /\ call[u].error = DbError
       \/ call[u].pc = "thrown" /\ call[u].caught = DbError

\* The stored document is recorded as a failed attempt.
RecordedAsFailed(d) ==
    /\ ~d.isDeletedOnYoutube
    /\ ~d.isModeratedOnYoutube
    /\ d.deletionError # NoDeletionError

\* C34: a document that a call marked deleted was deleted on the platform
\* by that call and one it marked moderated was moderated by it; and a call
\* whose delete or moderation resolved on the platform does not end with
\* the document recorded as a failed attempt.
C34_FlagsFollowThePlatform ==
    \A u \in Users :
        Remediating(u) =>
            \A d \in comments :
                (d.id = call[u].analyzedCommentId /\ d.id \in call[u].wrote) =>
                    /\ d.isDeletedOnYoutube =>
                          PlatformSucceeded(u, "deleteYoutubeComment")
                    /\ d.isModeratedOnYoutube =>
                          PlatformSucceeded(u, "moderateYoutubeComment")
                    /\ (\/ PlatformSucceeded(u, "deleteYoutubeComment")
                        \/ PlatformSucceeded(u, "moderateYoutubeComment")) =>
                          ~RecordedAsFailed(d)

\* C35: whatever calls of requestBatchDeleteJudiComments were made before
\* and during a call of requestDeleteYoutubeComment, a comment that the
\* call deleted on the platform is not stored as a failed attempt when the
\* call has settled, and the call asks the platform to delete only a
\* comment that was not marked deleted when it was loaded.
C35_DeletedIsNotRecordedAsFailed ==
    \A u \in Users :
        /\ (Remediating(u) /\ "deleteYoutubeComment" \in call[u].gatewayCalls) =>
              ~call[u].comment.isDeletedOnYoutube
        /\ (PlatformSucceeded(u, "deleteYoutubeComment")
            /\ call[u].pc \in {"returned", "thrown"}) =>
              \A d \in comments :
                  d.id = call[u].analyzedCommentId => ~RecordedAsFailed(d)

FindOneUser(email) ==
    IF \E d \in userDocs : d.email = email
    THEN CHOOSE d \in userDocs : d.email = email
    ELSE NoUser

\* user.save() of a loaded document: the modified paths are written to the
\* stored document of that _id.
SaveUser(email, otpCode, otpExpiresAt, verified) ==
    { IF d.email = email
      THEN [d EXCEPT !.otpCode = otpCode,
                     !.otpExpiresAt = otpExpiresAt,
                     !.isVerified = d.isVerified \/ verified]
      ELSE d : d \in userDocs }

AuthSettled(c) == authCall[c].pc \in {"returned", "thrown"}

\* As NoneSettled, for the calls of the auth service.
NoAuthSettled == \A c \in Clients : ~AuthSettled(c)

AuthThrow(c, class) ==
    [authCall EXCEPT ![c] = [@ EXCEPT !.pc = "thrown", !.error = class,
                                      !.user = NoUser, !.otp = NoOtp,
                                      !.isNew = FALSE]]

AuthReturn(c, withToken) ==
    [authCall EXCEPT ![c] = [@ EXCEPT !.pc = "returned", !.token = withToken,
                                      !.user = NoUser, !.otp = NoOtp,
                                      !.isNew = FALSE]]

\* registerUser is called: it runs up to the await of User.findOne({ email }).
RegisterUser(c, username, email, password) ==
    /\ authCall[c].pc = "idle"
    /\ NoAuthSettled
    /\ authCall' = [authCall EXCEPT ![c] =
           [IdleAuthCall EXCEPT !.op = "registerUser", !.pc = "findOneEmail",
                                !.username = username, !.email = email,
                                !.password = password]]
    /\ UNCHANGED <<analyses, comments, frame, call, userDocs, hook>>

\* User.findOne({ email }) resolves. A verified account is refused; the OTP
\* is generated; an unverified account is the document to save, and for an
\* email not yet stored the call awaits User.findOne({ username }).
RegisterFindOneEmail(c, otp) ==
    /\ authCall[c].pc = "findOneEmail"
    /\ authCall[c].op = "registerUser"
    /\ NoAuthSettled
    /\ LET existingUser == FindOneUser(authCall[c].email) IN
       authCall' =
           IF existingUser # NoUser /\ existingUser.isVerified
           THEN AuthThrow(c, "BadRequestError")
           ELSE IF existingUser # NoUser
           THEN [authCall EXCEPT ![c] =
                    [@ EXCEPT !.pc = "save", !.otp = otp,
                              !.user = [existingUser EXCEPT
                                           !.otpCode = otp,
                                           !.otpExpiresAt = NotYetExpired]]]
           ELSE [authCall EXCEPT ![c] =
                    [@ EXCEPT !.pc = "findOneUsername", !.otp = otp]]
    /\ UNCHANGED <<analyses, comments, frame, call, userDocs, hook>>

\* User.findOne({ username }) resolves: a taken username is refused, else
\* the new document is built.
RegisterFindOneUsername(c) ==
    /\ authCall[c].pc = "findOneUsername"
    /\ NoAuthSettled
    /\ authCall' =
           IF \E d \in userDocs : d.username = authCall[c].username
           THEN AuthThrow(c, "BadRequestError")
           ELSE [authCall EXCEPT ![c] =
                    [@ EXCEPT !.pc = "save", !.isNew = TRUE,
                              !.user = [email        |-> authCall[c].email,
                                        username     |-> authCall[c].username,
                                        password     |-> authCall[c].password,
                                        isVerified   |-> FALSE,
                                        otpCode      |-> authCall[c].otp,
                                        otpExpiresAt |-> NotYetExpired]]]
    /\ UNCHANGED <<analyses, comments, frame, call, userDocs, hook>>

\* userToSave.save() resolves: a new document is inserted, which the unique
\* indexes of the collection allow only while no document has its email or
\* its username; a loaded document has its otpCode and otpExpiresAt written.
RegisterSave(c) ==
    /\ authCall[c].pc = "save"
    /\ authCall[c].op = "registerUser"
    /\ NoAuthSettled
    /\ authCall[c].isNew =>
           \A d \in userDocs : /\ d.email # authCall[c].email
                               /\ d.username # authCall[c].username
    /\ userDocs' =
           IF authCall[c].isNew
           THEN userDocs \cup {authCall[c].user}
           ELSE SaveUser(authCall[c].email, authCall[c].otp, NotYetExpired, FALSE)
    /\ authCall' = [authCall EXCEPT ![c] = [@ EXCEPT !.pc = "sendEmail"]]
    /\ UNCHANGED <<analyses, comments, frame, call, hook>>

\* sendEmail resolves, sent or not: registerUser returns the message and the
\* user, and no token.
RegisterSendEmail(c) ==
    /\ authCall[c].pc = "sendEmail"
    /\ authCall[c].op = "registerUser"
    /\ NoAuthSettled
    /\ authCall' = AuthReturn(c, FALSE)
    /\ UNCHANGED <<analyses, comments, frame, call, userDocs, hook>>

\* An awaited operation of registerUser rejects: the two findOne reject out
\* of the function, save and sendEmail into the catch block, which throws
\* an AppError.
RegisterUserFails(c) ==
    /\ authCall[c].op = "registerUser"
    /\ authCall[c].pc \in {"findOneEmail", "findOneUsername", "save", "sendEmail"}
    /\ NoAuthSettled
    /\ authCall' = AuthThrow(c, IF authCall[c].pc \in {"save", "sendEmail"}
                                THEN "AppError" ELSE "DB_ERROR")
    /\ UNCHANGED <<analyses, comments, frame, call, userDocs, hook>>

\* loginUser is called: it runs up to the await of User.findOne.
LoginUser(c, email, password) ==
    /\ authCall[c].pc = "idle"
    /\ NoAuthSettled
    /\ authCall' = [authCall EXCEPT ![c] =
           [IdleAuthCall EXCEPT !.op = "loginUser", !.pc = "findOneEmail",
                                !.email = email, !.password = password]]
    /\ UNCHANGED <<analyses, comments, frame, call, userDocs, hook>>

\* User.findOne({ email }).select("+password") resolves.
LoginFindOne(c) ==
    /\ authCall[c].pc = "findOneEmail"
    /\ authCall[c].op = "loginUser"
    /\ NoAuthSettled
    /\ LET user == FindOneUser(authCall[c].email) IN
       authCall' =
           IF user = NoUser
           THEN AuthThrow(c, "UnauthorizedError")
           ELSE [authCall EXCEPT ![c] =
                    [@ EXCEPT !.pc = "comparePassword", !.user = user]]
    /\ UNCHANGED <<analyses, comments, frame, call, userDocs, hook>>

\* user.comparePassword(password) resolves: on a match the token is
\* generated and returned with the user.
LoginComparePassword(c) ==
    /\ authCall[c].pc = "comparePassword"
    /\ NoAuthSettled
    /\ authCall' =
           IF authCall[c].user.password = authCall[c].password
           THEN AuthReturn(c, TRUE)
           ELSE AuthThrow(c, "UnauthorizedError")
    /\ UNCHANGED <<analyses, comments, frame, call, userDocs, hook>>

LoginUserFails(c) ==
    /\ authCall[c].op = "loginUser"
    /\ authCall[c].pc \in {"findOneEmail", "comparePassword"}
    /\ NoAuthSettled
    /\ authCall' = AuthThrow(c, "DB_ERROR")
    /\ UNCHANGED <<analyses, comments, frame, call, userDocs, hook>>

\* verifyOtp is called: without an email or a code it throws, else it runs
\* up to the await of User.findOne.
VerifyOtp(c, email, otpCode) ==
    /\ authCall[c].pc = "idle"
    /\ NoAuthSettled
    /\ authCall' = [authCall EXCEPT ![c] =
           IF otpCode = NoOtp
           THEN [IdleAuthCall EXCEPT !.op = "verifyOtp", !.pc = "thrown",
                                     !.email = email,
                                     !.error = "BadRequestError"]
           ELSE [IdleAuthCall EXCEPT !.op = "verifyOtp", !.pc = "findOneEmail",
                                     !.email = email, !.otpCode = otpCode]]
    /\ UNCHANGED <<analyses, comments, frame, call, userDocs, hook>>

\* User.findOne({ email }).select("+otpCode +otpExpiresAt") resolves and the
\* tests run on the loaded document. NotFoundError is not imported by the
\* file, so for an unknown email the throw statement is a ReferenceError.
VerifyFindOne(c) ==
    /\ authCall[c].pc = "findOneEmail"
    /\ authCall[c].op = "verifyOtp"
    /\ NoAuthSettled
    /\ LET user == FindOneUser(authCall[c].email) IN
       authCall' =
           IF user = NoUser
           THEN AuthThrow(c, "ReferenceError")
           ELSE IF \/ user.isVerified
                   \/ user.otpCode = NoOtp
                   \/ user.otpExpiresAt = NoExpiry
                   \/ user.otpCode # authCall[c].otpCode
           THEN AuthThrow(c, "BadRequestError")
           ELSE IF user.otpExpiresAt = Expired
           THEN [authCall EXCEPT ![c] =
                    [@ EXCEPT !.pc = "saveExpired", !.user = user]]
           ELSE [authCall EXCEPT ![c] =
                    [@ EXCEPT !.pc = "save", !.user = user]]
    /\ UNCHANGED <<analyses, comments, frame, call, userDocs, hook>>

\* The save of the expired branch resolves: the stored OTP is cleared and
\* the call throws.
VerifySaveExpired(c) ==
    /\ authCall[c].pc = "saveExpired"
    /\ NoAuthSettled
    /\ userDocs' = SaveUser(authCall[c].email, NoOtp, NoExpiry, FALSE)
    /\ authCall' = AuthThrow(c, "BadRequestError")
    /\ UNCHANGED <<analyses, comments, frame, call, hook>>

\* The save of the success branch resolves: isVerified is written true, the
\* stored OTP is cleared, the token is generated and returned.
VerifySave(c) ==
    /\ authCall[c].pc = "save"
    /\ authCall[c].op = "verifyOtp"
    /\ NoAuthSettled
    /\ userDocs' = SaveUser(authCall[c].email, NoOtp, NoExpiry, TRUE)
    /\ authCall' = AuthReturn(c, TRUE)
    /\ UNCHANGED <<analyses, comments, frame, call, hook>>

VerifyOtpFails(c) ==
    /\ authCall[c].op = "verifyOtp"
    /\ authCall[c].pc \in {"findOneEmail", "saveExpired", "save"}
    /\ NoAuthSettled
    /\ authCall' = AuthThrow(c, "DB_ERROR")
    /\ UNCHANGED <<analyses, comments, frame, call, userDocs, hook>>

\* resendOtp is called: it runs up to the await of User.findOne.
ResendOtp(c, email) ==
    /\ authCall[c].pc = "idle"
    /\ NoAuthSettled
    /\ authCall' = [authCall EXCEPT ![c] =
           [IdleAuthCall EXCEPT !.op = "resendOtp", !.pc = "findOneEmail",
                                !.email = email]]
    /\ UNCHANGED <<analyses, comments, frame, call, userDocs, hook>>

\* User.findOne({ email }) resolves; for an unverified account the new OTP
\* is generated and set on the loaded document.
ResendFindOne(c, newOtp) ==
    /\ authCall[c].pc = "findOneEmail"
    /\ authCall[c].op = "resendOtp"
    /\ NoAuthSettled
    /\ LET user == FindOneUser(authCall[c].email) IN
       authCall' =
           IF user = NoUser
           THEN AuthThrow(c, "ReferenceError")
           ELSE IF user.isVerified
           THEN AuthThrow(c, "BadRequestError")
           ELSE [authCall EXCEPT ![c] =
                    [@ EXCEPT !.pc = "save", !.otp = newOtp,
                              !.user = [user EXCEPT
                                           !.otpCode = newOtp,
                                           !.otpExpiresAt = NotYetExpired]]]
    /\ UNCHANGED <<analyses, comments, frame, call, userDocs, hook>>

\* user.save() resolves: the new OTP and its expiry are stored.
ResendSave(c) ==
    /\ authCall[c].pc = "save"
    /\ authCall[c].op = "resendOtp"
    /\ NoAuthSettled
    /\ userDocs' = SaveUser(authCall[c].email, authCall[c].otp, NotYetExpired, FALSE)
    /\ authCall' = [authCall EXCEPT ![c] = [@ EXCEPT !.pc = "sendEmail"]]
    /\ UNCHANGED <<analyses, comments, frame, call, hook>>

\* sendEmail resolves: resendOtp returns a message.
ResendSendEmail(c) ==
    /\ authCall[c].pc = "sendEmail"
    /\ authCall[c].op = "resendOtp"
    /\ NoAuthSettled
    /\ authCall' = AuthReturn(c, FALSE)
    /\ UNCHANGED <<analyses, comments, frame, call, userDocs, hook>>

ResendOtpFails(c) ==
    /\ authCall[c].op = "resendOtp"
    /\ authCall[c].pc \in {"findOneEmail", "save", "sendEmail"}
    /\ NoAuthSettled
    /\ authCall' = AuthThrow(c, "DB_ERROR")
    /\ UNCHANGED <<analyses, comments, frame, call, userDocs, hook>>

\* The caller takes the value or the error of a settled call.
ReturnAuthCall(c) ==
    /\ AuthSettled(c)
    /\ authCall' = [authCall EXCEPT ![c] = IdleAuthCall]
    /\ UNCHANGED <<analyses, comments, frame, call, userDocs, hook>>

\* The ten minutes of a stored OTP run out: from now on new Date() is
\* greater than its otpExpiresAt.
OtpExpires(email) ==
    /\ NoAuthSettled
    /\ \E d \in userDocs : d.email = email /\ d.otpExpiresAt = NotYetExpired
    /\ userDocs' = { IF d.email = email
                     THEN [d EXCEPT !.otpExpiresAt = Expired]
                     ELSE d : d \in userDocs }
    /\ UNCHANGED <<analyses, comments, frame, call, authCall, hook>>

NextAuth ==
    \/ \E c \in Clients :
          \/ \E username \in Usernames, email \in Emails, password \in Passwords :
                RegisterUser(c, username, email, password)
          \/ \E otp \in Otps : RegisterFindOneEmail(c, otp)
          \/ RegisterFindOneUsername(c)
          \/ RegisterSave(c)
          \/ RegisterSendEmail(c)
          \/ RegisterUserFails(c)
          \/ \E email \in Emails, password \in Passwords :
                LoginUser(c, email, password)
          \/ LoginFindOne(c)
          \/ LoginComparePassword(c)
          \/ LoginUserFails(c)
          \/ \E email \in Emails, otpCode \in Otps \cup {NoOtp} :
                VerifyOtp(c, email, otpCode)
          \/ VerifyFindOne(c)
          \/ VerifySaveExpired(c)
          \/ VerifySave(c)
          \/ VerifyOtpFails(c)
          \/ \E email \in Emails : ResendOtp(c, email)
          \/ \E newOtp \in Otps : ResendFindOne(c, newOtp)
          \/ ResendSave(c)
          \/ ResendSendEmail(c)
          \/ ResendOtpFails(c)
          \/ ReturnAuthCall(c)
    \/ \E email \in Emails : OtpExpires(email)

SpecAuth == Init /\ [][NextAuth]_vars


\* C38: registerUser returns no token, and whenever a call of the auth
\* service returns a token, the stored user of its email has isVerified
\* true: no token is issued for a password-registered account before
\* verifyOtp has succeeded for it.
C38_TokenOnlyForVerifiedUser ==
    \A c \in Clients :
        authCall[c].pc = "returned" =>
            /\ authCall[c].op = "registerUser" => ~authCall[c].token
            /\ authCall[c].token => FindOneUser(authCall[c].email).isVerified

\* A verifyOtp call of c takes the step named by the two positions.
VerifyStep(c, from, to) ==
    /\ authCall[c].op = "verifyOtp"
    /\ authCall[c].pc = from
    /\ authCall'[c].pc = to

\* C39: verifyOtp returns its token and writes isVerified true only in a
\* step before which the stored OTP of the email, the one most recently
\* issued, equals the supplied code and was found not expired; that step
\* and the step whose save of a detected expiry resolves leave no OTP
\* stored; and
\* isVerified never goes from true to false.
C39_OnlyTheCurrentOtpVerifies ==
    [][/\ \A c \in Clients :
             /\ VerifyStep(c, "findOneEmail", "save") =>
                    /\ FindOneUser(authCall[c].email).otpCode = authCall[c].otpCode
                    /\ FindOneUser(authCall[c].email).otpExpiresAt = NotYetExpired
             /\ VerifyStep(c, "save", "returned") =>
                    /\ FindOneUser(authCall[c].email).otpCode = authCall[c].otpCode
                    /\ ~FindOneUser(authCall[c].email).isVerified
                    /\ authCall'[c].token
                    /\ \E d \in userDocs' :
                          /\ d.email = authCall[c].email
                          /\ d.isVerified
                          /\ d.otpCode = NoOtp
                          /\ d.otpExpiresAt = NoExpiry
             /\ (/\ VerifyStep(c, "saveExpired", "thrown")
                 /\ authCall'[c].error = "BadRequestError") =>
                    \E d \in userDocs' :
                          /\ d.email = authCall[c].email
                          /\ d.otpCode = NoOtp
                          /\ d.otpExpiresAt = NoExpiry
             /\ (authCall[c].op = "verifyOtp" /\ ~VerifyStep(c, "save", "returned")) =>
                    (authCall'[c].pc = "returned" => authCall[c].pc = "returned")
       /\ \A d \in userDocs : d.isVerified =>
             \E e \in userDocs' : e.email = d.email /\ e.isVerified]_vars


(***************************************************************************)
(* useVideoAnalysis.js: handleSubmitAnalysis and the polling effect.       *)
(***************************************************************************)
\* status?.includes("ERROR"), for the statuses of ApiStatuses.
IncludesERROR(status) == status \in {"COMPLETED_DELETION_WITH_PARTIAL_ERRORS"}

\* The condition under which the polling effect sets its interval.
PollingCondition(h) ==
    /\ h.isAnalyzing
    /\ h.analysisId # Null
    /\ h.status = "PROCESSING"
    /\ h.isYouTubeConnected

\* The render after the state updates that lead from prev to next:
\* when a dependency of the polling effect has changed (newData: a
\* setVideoAnalysisData has put a new object), the cleanup of its last run
\* clears the interval of that run, and the effect runs again.
RunPollingEffect(prev, next, newData) ==
    IF \/ newData
       \/ prev.isAnalyzing # next.isAnalyzing
       \/ prev.analysisId # next.analysisId
       \/ prev.isYouTubeConnected # next.isYouTubeConnected
    THEN [next EXCEPT !.intervals =
             (IF prev.intervals > 0 THEN prev.intervals - 1 ELSE 0)
             + (IF PollingCondition(next) THEN 1 ELSE 0)]
    ELSE next

\* getCurrentUserApi of the effect run at mount settles: the user has a
\* youtubeChannelId, or has none or could not be loaded.
FetchUserSettles(connected) ==
    /\ hook.isUserLoading
    /\ hook' = RunPollingEffect(hook,
                   [hook EXCEPT !.isUserLoading = FALSE,
                                !.isYouTubeConnected = connected],
                   FALSE)
    /\ UNCHANGED <<analyses, comments, frame, call, userDocs, authCall>>

\* handleSubmitAnalysis is called with the prerequisites met and a valid
\* url: it runs up to the await of submitVideoForAnalysisApi.
HandleSubmitAnalysis ==
    /\ hook.pc = "idle"
    /\ ~hook.isUserLoading
    /\ hook.isYouTubeConnected
    /\ hook' = RunPollingEffect(hook,
                   [hook EXCEPT !.pc = "submit", !.isAnalyzing = TRUE,
                                !.status = Null, !.analysisId = Null],
                   hook.status # Null)
    /\ UNCHANGED <<analyses, comments, frame, call, userDocs, authCall>>

\* submitVideoForAnalysisApi resolves with the job, of some _id, in some
\* status.
SubmitResolves(status, id) ==
    /\ hook.pc = "submit"
    /\ hook' = RunPollingEffect(hook,
                   IF status = "COMPLETED"
                   THEN [hook EXCEPT !.pc = "fetchComments",
                                     !.status = status, !.analysisId = id]
                   ELSE IF status \in {"PENDING", "PROCESSING"}
                   THEN [hook EXCEPT !.pc = "idle",
                                     !.status = status, !.analysisId = id]
                   ELSE [hook EXCEPT !.pc = "idle", !.isAnalyzing = FALSE,
                                     !.status = "FAILED", !.analysisId = id],
                   TRUE)
    /\ UNCHANGED <<analyses, comments, frame, call, userDocs, authCall>>

\* submitVideoForAnalysisApi rejects: the catch block.
SubmitRejects ==
    /\ hook.pc = "submit"
    /\ hook' = RunPollingEffect(hook,
                   [hook EXCEPT !.pc = "idle", !.isAnalyzing = FALSE,
                                !.status = "FAILED"],
                   TRUE)
    /\ UNCHANGED <<analyses, comments, frame, call, userDocs, authCall>>

\* fetchComments, which catches its own errors, resolves after an initial
\* status COMPLETED.
SubmitFetchCommentsResolves ==
    /\ hook.pc = "fetchComments"
    /\ hook' = RunPollingEffect(hook,
                   [hook EXCEPT !.pc = "idle", !.isAnalyzing = FALSE],
                   FALSE)
    /\ UNCHANGED <<analyses, comments, frame, call, userDocs, authCall>>

\* POLLING_INTERVAL is over while an interval is set: its callback runs up
\* to the await of getVideoAnalysisApi.
IntervalCallback ==
    /\ hook.intervals > 0
    /\ hook.polls < MaxPolls
    /\ hook' = [hook EXCEPT !.polls = @ + 1]
    /\ UNCHANGED <<analyses, comments, frame, call, userDocs, authCall>>

\* getVideoAnalysisApi of a callback resolves: the data is replaced, and a
\* status COMPLETED, FAILED or one that includes ERROR sets isAnalyzing
\* false (fetchComments, awaited after that for COMPLETED, changes none of
\* the state modelled).
PollResolves(status) ==
    /\ hook.polls > 0
    /\ hook' = RunPollingEffect(hook,
                   [hook EXCEPT !.polls = @ - 1,
                                !.status = status,
                                !.isAnalyzing =
                                    IF \/ status \in {"COMPLETED", "FAILED"}
                                       \/ IncludesERROR(status)
                                    THEN FALSE ELSE @],
                   TRUE)
    /\ UNCHANGED <<analyses, comments, frame, call, userDocs, authCall>>

\* getVideoAnalysisApi of a callback rejects: the catch block.
PollRejects ==
    /\ hook.polls > 0
    /\ hook' = RunPollingEffect(hook,
                   [hook EXCEPT !.polls = @ - 1, !.isAnalyzing = FALSE],
                   FALSE)
    /\ UNCHANGED <<analyses, comments, frame, call, userDocs, authCall>>

NextHook ==
    \/ \E connected \in BOOLEAN : FetchUserSettles(connected)
    \/ HandleSubmitAnalysis
    \/ \E status \in ApiStatuses, id \in HookAnalysisIds : SubmitResolves(status, id)
    \/ SubmitRejects
    \/ SubmitFetchCommentsResolves
    \/ IntervalCallback
    \/ \E status \in ApiStatuses : PollResolves(status)
    \/ PollRejects

SpecHook == Init /\ [][NextHook]_vars

\* C40: at most one polling interval is set at a time; a poll that returns
\* COMPLETED, FAILED or a status containing ERROR, or that fails, leaves
\* isAnalyzing false and no interval set; and isAnalyzing is true with no
\* submit and no poll awaiting the API only while the interval is set, so
\* that after an initial status PENDING or PROCESSING the hook is polling.
C40_AnalyzingOnlyWhilePolling ==
    /\ hook.intervals <= 1
    /\ (hook.status \in {"COMPLETED", "FAILED"} \/ IncludesERROR(hook.status)) =>
           (hook.pc = "idle" => ~hook.isAnalyzing /\ hook.intervals = 0)
    /\ (hook.isAnalyzing /\ hook.pc = "idle" /\ hook.polls = 0) =>
           hook.intervals = 1

====
